---- MODULE Spec2Model ----
(***************************************************************************)
(* A model of the portfolio pipeline of PersonalPortfolio:                 *)
(*   sheet -> GoogleSheetsClient.get_transactions -> clean_transactions    *)
(*         -> PortfolioManager._prepare_transaction_summary                *)
(*         -> PortfolioManager.calculate_stock_view                        *)
(* with the market-data provider (price and FX lookups) beside it.         *)
(*                                                                         *)
(* Floats are modelled as exact extended rationals [n, d]: d > 0 is the    *)
(* number n/d in lowest terms, d = 0 is NaN (n = 0), +inf (n = 1) or       *)
(* -inf (n = -1).  Strings that the code trims, uppercases or parses are   *)
(* sequences of one-character strings.                                     *)
(***************************************************************************)
EXTENDS Integers, Sequences, FiniteSets, TLC

\* ------------------------------------------------------------------------
\* Floating-point values
\* ------------------------------------------------------------------------

Abs(x) == IF x < 0 THEN -x ELSE x

Sign(x) == IF x < 0 THEN -1 ELSE IF x > 0 THEN 1 ELSE 0

RECURSIVE GCD(_, _)
GCD(a, b) == IF b = 0 THEN a ELSE GCD(b, a % b)

NaN == [n |-> 0, d |-> 0]

Inf(s) == [n |-> s, d |-> 0]

\* n/d with d # 0, in lowest terms and with a positive denominator
Frac(n, d) ==
    LET g == GCD(Abs(n), Abs(d))
    IN  [n |-> Sign(d) * (n \div g), d |-> Abs(d) \div g]

Num(k) == [n |-> k, d |-> 1]

IsNaN(x) == x.d = 0 /\ x.n = 0

IsInf(x) == x.d = 0 /\ x.n # 0

IsFinite(x) == x.d > 0

RNeg(a) == [n |-> -a.n, d |-> a.d]

RAdd(a, b) ==
    IF IsNaN(a) \/ IsNaN(b) THEN NaN
    ELSE IF IsInf(a) /\ IsInf(b) THEN (IF a.n = b.n THEN a ELSE NaN)
    ELSE IF IsInf(a) THEN a
    ELSE IF IsInf(b) THEN b
    ELSE Frac(a.n * b.d + b.n * a.d, a.d * b.d)

RSub(a, b) == RAdd(a, RNeg(b))

RMul(a, b) ==
    IF IsNaN(a) \/ IsNaN(b) THEN NaN
    ELSE IF IsInf(a) \/ IsInf(b)
         THEN (IF a.n = 0 \/ b.n = 0 THEN NaN ELSE Inf(Sign(a.n) * Sign(b.n)))
    ELSE Frac(a.n * b.n, a.d * b.d)

\* IEEE division, as pandas and numpy do it: x/0 is +-inf, 0/0 is NaN
RDiv(a, b) ==
    IF IsNaN(a) \/ IsNaN(b) THEN NaN
    ELSE IF IsInf(a) THEN (IF IsInf(b) THEN NaN
                           ELSE Inf(a.n * (IF b.n < 0 THEN -1 ELSE 1)))
    ELSE IF IsInf(b) THEN Num(0)
    ELSE IF b.n = 0 THEN (IF a.n = 0 THEN NaN ELSE Inf(Sign(a.n)))
    ELSE Frac(a.n * b.d, a.d * b.n)

\* a > b; False when either side is NaN
RGt(a, b) ==
    IF IsNaN(a) \/ IsNaN(b) THEN FALSE
    ELSE IF IsInf(a) \/ IsInf(b)
         THEN (IF IsInf(a) /\ IsInf(b) THEN a.n > b.n
               ELSE IF IsInf(a) THEN a.n > 0 ELSE b.n < 0)
    ELSE a.n * b.d > b.n * a.d

\* a <= b; False when either side is NaN
RLe(a, b) == ~IsNaN(a) /\ ~IsNaN(b) /\ ~RGt(a, b)

\* Python's max(a, b): b only when b > a
PyMax(a, b) == IF RGt(b, a) THEN b ELSE a

\* round(x, 2): to the nearest hundredth, ties to the even hundredth
Round2(x) ==
    IF ~IsFinite(x) THEN x
    ELSE LET num == x.n * 100
             q   == num \div x.d
             r   == num % x.d
             up  == \/ 2 * r > x.d
                    \/ (2 * r = x.d /\ q % 2 = 1)
         IN  Frac(IF up THEN q + 1 ELSE q, 100)

\* ------------------------------------------------------------------------
\* Strings and cells
\* ------------------------------------------------------------------------

\* a cell: None / pd.NA, or a string (a sequence of characters)
None == [null |-> TRUE, s |-> <<>>]

Str(chars) == [null |-> FALSE, s |-> chars]

LowerLetters ==
    <<"a", "b", "c", "d", "e", "f", "g", "h", "i", "j", "k", "l", "m",
      "n", "o", "p", "q", "r", "s", "t", "u", "v", "w", "x", "y", "z">>

UpperLetters ==
    <<"A", "B", "C", "D", "E", "F", "G", "H", "I", "J", "K", "L", "M",
      "N", "O", "P", "Q", "R", "S", "T", "U", "V", "W", "X", "Y", "Z">>

Digits == <<"0", "1", "2", "3", "4", "5", "6", "7", "8", "9">>

IsSpace(c) == c \in {" ", "\t"}

RECURSIVE LStrip(_)
LStrip(s) ==
    IF s # <<>> /\ IsSpace(Head(s)) THEN LStrip(Tail(s)) ELSE s

RECURSIVE RStrip(_)
RStrip(s) ==
    IF s # <<>> /\ IsSpace(s[Len(s)]) THEN RStrip(SubSeq(s, 1, Len(s) - 1))
    ELSE s

\* str.strip()
Strip(s) == RStrip(LStrip(s))

UpperChar(c) ==
    IF \E i \in 1..26 : LowerLetters[i] = c
    THEN UpperLetters[CHOOSE i \in 1..26 : LowerLetters[i] = c]
    ELSE c

\* str.upper()
Upper(s) == [i \in 1..Len(s) |-> UpperChar(s[i])]

LowerChar(c) ==
    IF \E i \in 1..26 : UpperLetters[i] = c
    THEN LowerLetters[CHOOSE i \in 1..26 : UpperLetters[i] = c]
    ELSE c

\* str.lower()
Lower(s) == [i \in 1..Len(s) |-> LowerChar(s[i])]

\* str.replace(c, "") for a one-character c
RECURSIVE Remove(_, _)
Remove(s, c) ==
    IF s = <<>> THEN <<>>
    ELSE IF Head(s) = c THEN Remove(Tail(s), c)
    ELSE <<Head(s)>> \o Remove(Tail(s), c)

\* str.replace(c, by) for one-character c and by
Replace(s, c, by) == [i \in 1..Len(s) |-> IF s[i] = c THEN by ELSE s[i]]

Contains(s, c) == \E i \in 1..Len(s) : s[i] = c

DigitValue(c) == (CHOOSE i \in 1..10 : Digits[i] = c) - 1

IsDigit(c) == \E i \in 1..10 : Digits[i] = c

RECURSIVE DigitsValue(_)
DigitsValue(s) ==
    IF s = <<>> THEN 0
    ELSE 10 * DigitsValue(SubSeq(s, 1, Len(s) - 1)) + DigitValue(s[Len(s)])

RECURSIVE Pow10(_)
Pow10(k) == IF k = 0 THEN 1 ELSE 10 * Pow10(k - 1)

\* pd.to_numeric(s, errors="coerce") on a string: an optional sign, digits
\* with at most one decimal point, surrounding blanks allowed; anything
\* else (the empty string included) is NaN.  Exponents, "inf" and "nan"
\* spellings are outside the strings the model draws.
ToNumeric(s0) ==
    LET s    == Strip(s0)
        neg  == s # <<>> /\ Head(s) = "-"
        body == IF s # <<>> /\ Head(s) \in {"-", "+"} THEN Tail(s) ELSE s
        dots == {i \in 1..Len(body) : body[i] = "."}
        ok   == /\ Cardinality(dots) <= 1
                /\ \A i \in 1..Len(body) : body[i] = "." \/ IsDigit(body[i])
                /\ \E i \in 1..Len(body) : IsDigit(body[i])
        p    == IF dots = {} THEN Len(body) + 1 ELSE CHOOSE i \in dots : TRUE
        ip   == SubSeq(body, 1, p - 1)
        fp   == SubSeq(body, p + 1, Len(body))
        mag  == Frac(DigitsValue(ip) * Pow10(Len(fp)) + DigitsValue(fp),
                     Pow10(Len(fp)))
    IN  IF ~ok THEN NaN ELSE IF neg THEN RNeg(mag) ELSE mag

\* str(x) of a cell, as Series.astype(str) renders it
AsStr(cell) == IF cell.null THEN <<"N", "o", "n", "e">> ELSE cell.s

\* the cell parsed as it stands, without the European conventions
convert_euro_number_plain(cell) == ToNumeric(AsStr(cell))

\* one cell of convert_euro_numbers
convert_euro_number(cell) ==
    LET string_value == AsStr(cell)
        percent      == Contains(string_value, "%")
        no_percent   == IF percent THEN Remove(string_value, "%")
                        ELSE string_value
        no_dots      == Remove(no_percent, ".")
        decimal      == Replace(no_dots, ",", ".")
        numeric      == ToNumeric(decimal)
    IN  IF percent THEN RDiv(numeric, Num(100)) ELSE numeric

\* ------------------------------------------------------------------------
\* Data-quality configuration (DEFAULT_CONFIG)
\* ------------------------------------------------------------------------

column_mapping ==
    [h \in {"Ticker", "Name", "Date", "ISIN", "Type", "Quantity",
            "Price per Unit", "Price per Unit EUR", "Currency",
            "Gross Amount", "Gross Amount EUR", "Taxes", "FX Rate",
            "Net Base EUR", "Broker", "Asset Type"} |->
        CASE h = "Ticker"             -> "ticker"
          [] h = "Name"               -> "name"
          [] h = "Date"               -> "date"
          [] h = "ISIN"               -> "isin"
          [] h = "Type"               -> "type"
          [] h = "Quantity"           -> "quantity"
          [] h = "Price per Unit"     -> "price_per_unit"
          [] h = "Price per Unit EUR" -> "price_per_unit_eur"
          [] h = "Currency"           -> "currency"
          [] h = "Gross Amount"       -> "gross_amount"
          [] h = "Gross Amount EUR"   -> "gross_amount_eur"
          [] h = "Taxes"              -> "taxes"
          [] h = "FX Rate"            -> "fx_rate"
          [] h = "Net Base EUR"       -> "net_base_eur"
          [] h = "Broker"             -> "broker"
          [] h = "Asset Type"         -> "asset_type"]

numeric_columns ==
    {"quantity", "price_per_unit", "price_per_unit_eur", "gross_amount",
     "gross_amount_eur", "taxes", "fx_rate", "net_base_eur"}

\* the canonical display values of the transaction types
Buy == Str(<<"B", "u", "y">>)

Sell == Str(<<"S", "e", "l", "l">>)

Dividend == Str(<<"D", "i", "v", "i", "d", "e", "n", "d">>)

DividendReinvestment ==
    Str(<<"D", "i", "v", "i", "d", "e", "n", "d", " ",
          "R", "e", "i", "n", "v", "e", "s", "t", "m", "e", "n", "t">>)

Interest == Str(<<"I", "n", "t", "e", "r", "e", "s", "t">>)

Pension == Str(<<"P", "e", "n", "s", "i", "o", "n">>)

\* allowed_types: key -> canonical display value, as <<key, value>> pairs
allowed_types ==
    { <<<<"B", "U", "Y">>, Buy>>,
      <<<<"S", "E", "L", "L">>, Sell>>,
      <<<<"D", "I", "V">>, Dividend>>,
      <<<<"D", "I", "V", "I", "D", "E", "N", "D">>, Dividend>>,
      <<<<"D", "I", "V", "I", "D", "E", "N", "D", "-",
          "R", "E", "I", "N", "V", "E", "S", "T", "M", "E", "N", "T">>,
        DividendReinvestment>>,
      <<<<"I", "N", "T", "E", "R", "E", "S", "T">>, Interest>>,
      <<<<"P", "E", "N", "S", "I", "O", "N">>, Pension>> }

\* dict.get(key, pd.NA) on allowed_types
allowed_types_get(key) ==
    IF \E kv \in allowed_types : kv[1] = key
    THEN (CHOOSE kv \in allowed_types : kv[1] = key)[2]
    ELSE None

CAD == <<"C", "A", "D">>

DKK == <<"D", "K", "K">>

EUR == <<"E", "U", "R">>

USD == <<"U", "S", "D">>

HKD == <<"H", "K", "D">>

allowed_currencies == {CAD, DKK, EUR, USD, HKD}

\* ------------------------------------------------------------------------
\* Tables (pandas DataFrames)
\*   none: the value is None, not a DataFrame; columns: the column labels;
\*   rows: one function from column label to value per row, in index order
\* ------------------------------------------------------------------------

NoTable == [none |-> TRUE, columns |-> {}, rows |-> <<>>, index |-> <<>>]

\* pd.DataFrame()
EmptyTable ==
    [none |-> FALSE, columns |-> {}, rows |-> <<>>, index |-> <<>>]

\* the default index of a new DataFrame: 0, 1, ..., n - 1
RangeIndex(n) == [i \in 1..n |-> i - 1]

\* a DataFrame with the index its rows carry
IndexedTable(columns, rows, index) ==
    [none |-> FALSE, columns |-> columns, rows |-> rows, index |-> index]

Table(columns, rows) == IndexedTable(columns, rows, RangeIndex(Len(rows)))

\* the outcome of a call that ended in an exception instead of a table
Raised ==
    [none |-> TRUE, columns |-> {"raised"}, rows |-> <<>>, index |-> <<>>]

\* DataFrame.empty
IsEmpty(df) == df.columns = {} \/ df.rows = <<>>

\* len(df) of a value that may be None (None has no len; callers guard)
NRows(df) == Len(df.rows)

\* ------------------------------------------------------------------------
\* clean_transactions
\* ------------------------------------------------------------------------

\* the characters of the headers that column_mapping does not know
HeaderLetters(col) ==
    CASE col = "quantity" -> <<"q", "u", "a", "n", "t", "i", "t", "y">>
      [] col = "Order-Id" -> <<"O", "r", "d", "e", "r", "-", "I", "d">>
      [] col = "Fee/Tax"  -> <<"F", "e", "e", "/", "T", "a", "x">>
      [] col = " Trade Date " ->
             <<" ", "T", "r", "a", "d", "e", " ", "D", "a", "t", "e", " ">>

\* the column name that the given characters spell
ColumnNamed(chars) ==
    CASE chars = <<"q", "u", "a", "n", "t", "i", "t", "y">> -> "quantity"
      [] chars = <<"o", "r", "d", "e", "r", "_", "i", "d">> -> "order_id"
      [] chars = <<"f", "e", "e", "_", "t", "a", "x">> -> "fee_tax"
      [] chars = <<"t", "r", "a", "d", "e", "_", "d", "a", "t", "e">>
             -> "trade_date"

\* _to_snake_case
to_snake_case(value) ==
    Lower(Replace(Replace(Replace(Strip(value), " ", "_"), "-", "_"),
                  "/", "_"))

\* the rename map of clean_transactions: column_mapping.get(col,
\* _to_snake_case(col))
rename_map(col) ==
    IF col \in DOMAIN column_mapping THEN column_mapping[col]
    ELSE ColumnNamed(to_snake_case(HeaderLetters(col)))

\* the renamed columns that more than one header of the table is renamed to
colliding_columns(transactions) ==
    {rename_map(h) : h \in {g \in transactions.columns :
                              \E k \in transactions.columns :
                                  k # g /\ rename_map(k) = rename_map(g)}}

\* the type normalisation without the uppercasing
normalize_type_as_typed(x) ==
    IF ~x.null /\ Strip(x.s) # <<>> THEN allowed_types_get(Strip(x.s))
    ELSE None

\* the lambda of the type normalisation
normalize_type(x) ==
    IF ~x.null /\ Strip(x.s) # <<>>
    THEN allowed_types_get(Upper(Strip(x.s)))
    ELSE None

\* the lambda of the currency normalisation
normalize_currency(x) == IF ~x.null THEN Str(Upper(Strip(x.s))) ELSE x

\* the trimming of one cell of an object column: strip, "" becomes NA
trim_cell(x) ==
    IF x.null THEN x
    ELSE IF Strip(x.s) = <<>> THEN None ELSE Str(Strip(x.s))

\* df[df["type"].notna()] after the type normalisation
type_kept(row) == ~row["type"].null

\* the currency filter keeping every row
currency_kept_any(row) == TRUE

\* df[df["currency"].isin(config.allowed_currencies)]
currency_kept(row) ==
    ~row["currency"].null /\ row["currency"].s \in allowed_currencies

\* the placeholder mask asking for an amount, a ticker and a name at once
placeholder_mask_all_needed(row) ==
    LET gross == row["gross_amount"]
        filled == IF IsNaN(gross) THEN Num(0) ELSE gross
    IN  ~(filled = Num(0) \/ row["ticker"].null \/ row["name"].null)

\* the mask of the placeholder-row filter
placeholder_mask(row) ==
    LET gross == row["gross_amount"]
        filled == IF IsNaN(gross) THEN Num(0) ELSE gross
    IN  ~(filled = Num(0) /\ row["ticker"].null /\ row["name"].null)

\* clean_transactions handing back what it was given
clean_transactions_as_given(transactions) == transactions

\* df.reset_index(drop=True) leaving the index of the filtered rows
reset_index_kept(index) == index

\* df.reset_index(drop=True)
reset_index(index) == RangeIndex(Len(index))

\* the rows under their renamed columns, each with its index label
renamed_rows(transactions) ==
    [i \in 1..Len(transactions.rows) |->
       [label |-> transactions.index[i],
        row |-> [c \in {rename_map(h) : h \in transactions.columns} |->
                   transactions.rows[i]
                     [CHOOSE h \in transactions.columns : rename_map(h) = c]]]]

\* a cell after the trimming and, in a numeric column, the conversion
parsed_cell(c, x) ==
    IF c \in numeric_columns THEN convert_euro_number(trim_cell(x))
    ELSE trim_cell(x)

parsed_rows(rows) ==
    [i \in 1..Len(rows) |->
       [rows[i] EXCEPT !.row = [c \in DOMAIN @ |-> parsed_cell(c, @[c])]]]

typed_rows(rows, columns) ==
    IF "type" \in columns
    THEN LET Kept(r) == type_kept(r.row)
         IN  SelectSeq([i \in 1..Len(rows) |->
                          [rows[i] EXCEPT
                             !.row["type"] = normalize_type(@)]],
                       Kept)
    ELSE rows

currency_rows(rows, columns) ==
    IF "currency" \in columns
    THEN LET Kept(r) == currency_kept(r.row)
         IN  SelectSeq([i \in 1..Len(rows) |->
                          [rows[i] EXCEPT
                             !.row["currency"] = normalize_currency(@)]],
                       Kept)
    ELSE rows

essential_rows(rows, columns) ==
    IF {"gross_amount", "ticker", "name"} \subseteq columns
    THEN LET Kept(r) == placeholder_mask(r.row)
         IN  SelectSeq(rows, Kept)
    ELSE rows

\* the table of labelled rows after df.reset_index(drop=True)
reset_table(columns, rows) ==
    IndexedTable(columns, [i \in 1..Len(rows) |-> rows[i].row],
                 reset_index([i \in 1..Len(rows) |-> rows[i].label]))

\* clean_transactions.  Two headers renamed to one numeric column make
\* df[col] a DataFrame, which has no .str accessor: convert_euro_numbers
\* raises AttributeError.  Headers that collide on a column that is not
\* numeric are outside the sheets the model draws.
clean_transactions(transactions) ==
    IF transactions.none \/ IsEmpty(transactions) THEN EmptyTable
    ELSE IF colliding_columns(transactions) \cap numeric_columns # {}
    THEN Raised
    ELSE
    LET columns == {rename_map(h) : h \in transactions.columns}
    IN  reset_table(
          columns,
          essential_rows(
            currency_rows(
              typed_rows(parsed_rows(renamed_rows(transactions)), columns),
              columns),
            columns))

\* ------------------------------------------------------------------------
\* PortfolioManager._prepare_transaction_summary
\* ------------------------------------------------------------------------

\* the characters of the model's strings, in code-point order
CodePoints ==
    <<"\t", " ", "%", "+", ",", "-", ".", "/",
      "0", "1", "2", "3", "4", "5", "6", "7", "8", "9",
      "A", "B", "C", "D", "E", "F", "G", "H", "I", "J", "K", "L", "M",
      "N", "O", "P", "Q", "R", "S", "T", "U", "V", "W", "X", "Y", "Z", "_",
      "a", "b", "c", "d", "e", "f", "g", "h", "i", "j", "k", "l", "m",
      "n", "o", "p", "q", "r", "s", "t", "u", "v", "w", "x", "y", "z">>

Ord(c) == CHOOSE i \in 1..Len(CodePoints) : CodePoints[i] = c

\* a < b for strings
RECURSIVE StrLess(_, _)
StrLess(a, b) ==
    IF b = <<>> THEN FALSE
    ELSE IF a = <<>> THEN TRUE
    ELSE IF Head(a) = Head(b) THEN StrLess(Tail(a), Tail(b))
    ELSE Ord(Head(a)) < Ord(Head(b))

\* the strings of a set in ascending order (the group keys of a groupby)
RECURSIVE SortedKeys(_)
SortedKeys(S) ==
    IF S = {} THEN <<>>
    ELSE LET m == CHOOSE x \in S : \A y \in S \ {x} : StrLess(x, y)
         IN  <<m>> \o SortedKeys(S \ {m})

\* the sum that a null makes null
RECURSIVE SumWithNa(_)
SumWithNa(values) ==
    IF values = <<>> THEN Num(0)
    ELSE IF IsNaN(Head(values)) THEN NaN
    ELSE RAdd(Head(values), SumWithNa(Tail(values)))

\* sum of a float column, NaN skipped (the "sum" aggregation of a groupby)
RECURSIVE SumSkipNa(_)
SumSkipNa(values) ==
    IF values = <<>> THEN Num(0)
    ELSE IF IsNaN(Head(values)) THEN SumSkipNa(Tail(values))
    ELSE RAdd(Head(values), SumSkipNa(Tail(values)))

\* the fill leaving the value as the merge left it
FillNa0_kept(x) == x

\* the required columns with those of the metadata among them
required_columns_with_metadata ==
    {"name", "quantity", "price_per_unit_eur", "gross_amount_eur", "type",
     "ticker", "currency"}

\* Series.fillna(0.0) of one value
FillNa0(x) == IF IsNaN(x) THEN Num(0) ELSE x

required_columns ==
    {"name", "quantity", "price_per_unit_eur", "gross_amount_eur", "type"}

\* the last valid cell of a group instead of the first
first_valid_last(cells) ==
    LET valid == {i \in 1..Len(cells) : ~cells[i].null}
    IN  IF valid = {} THEN None
        ELSE cells[CHOOSE i \in valid : \A j \in valid : j <= i]

\* _first_valid over the cells of a group, in row order
RECURSIVE first_valid(_)
first_valid(cells) ==
    IF cells = <<>> THEN None
    ELSE IF ~Head(cells).null THEN Head(cells)
    ELSE first_valid(Tail(cells))

\* _calculate_weighted_average dividing the quantity by the amount
calculate_weighted_average_swapped(total_amount, total_quantity) ==
    RDiv(total_quantity, IF total_amount = Num(0) THEN NaN ELSE total_amount)

\* the weighted average reported as 0 for a zero quantity
calculate_weighted_average_or_zero(total_amount, total_quantity) ==
    IF total_quantity = Num(0) THEN Num(0)
    ELSE RDiv(total_amount, total_quantity)

\* _calculate_weighted_average for one security: zero quantities become NaN
\* before the division
calculate_weighted_average(total_amount, total_quantity) ==
    LET safe_quantity == IF total_quantity = Num(0) THEN NaN
                         ELSE total_quantity
    IN  RDiv(total_amount, safe_quantity)

\* every row with a name taking part, whatever its quantity
positive_rows_named(df) ==
    LET Keep(row) == ~row["name"].null
    IN  SelectSeq(df.rows, Keep)

\* the rows that take part: name and quantity present, quantity > 0
positive_rows(df) ==
    LET Keep(row) == /\ ~row["name"].null
                     /\ ~IsNaN(row["quantity"])
                     /\ RGt(row["quantity"], Num(0))
    IN  SelectSeq(df.rows, Keep)

\* the effective price taken from the gross amount whenever there is one
effective_price_eur_gross_first(row) ==
    LET fallback_price ==
            RDiv(row["gross_amount_eur"],
                 IF row["quantity"] = Num(0) THEN NaN ELSE row["quantity"])
    IN  IF IsNaN(fallback_price) THEN row["price_per_unit_eur"]
        ELSE fallback_price

\* effective_price_eur of a row: price_per_unit_eur, else
\* gross_amount_eur / quantity (a zero quantity replaced by NaN)
effective_price_eur(row) ==
    LET fallback_price ==
            RDiv(row["gross_amount_eur"],
                 IF row["quantity"] = Num(0) THEN NaN ELSE row["quantity"])
    IN  IF IsNaN(row["price_per_unit_eur"]) THEN fallback_price
        ELSE row["price_per_unit_eur"]

\* amount_eur without the multiplication by the quantity
amount_eur_per_unit(row) == effective_price_eur(row)

\* amount_eur of a row
amount_eur(row) == RMul(row["quantity"], effective_price_eur(row))

Column(rows, c) == [i \in 1..Len(rows) |-> rows[i][c]]

\* _aggregate_transactions(data, transaction_type, prefix) for one name:
\* present is whether the name has a row in the aggregation
aggregate_transactions(data, transaction_type, name) ==
    LET InGroup(row) == row["type"] = transaction_type /\ row["name"].s = name
        subset == SelectSeq(data, InGroup)
    IN  [present  |-> subset # <<>>,
         quantity |-> SumSkipNa(Column(subset, "quantity")),
         amount   |-> SumSkipNa([i \in 1..Len(subset) |->
                                    amount_eur(subset[i])]),
         count    |-> Len(subset)]

\* a column of one side in the row of a name: 0.0 assigned when the side has
\* no row at all; else the left merge, which leaves NaN for a name the
\* side does not hold, then fillna(0.0)
side_value(data, transaction_type, present, value) ==
    IF \A i \in 1..Len(data) : data[i]["type"] # transaction_type
    THEN Num(0)
    ELSE FillNa0(IF present THEN value ELSE NaN)

\* one row of the summary: the metadata of the name merged with its buy and
\* sell aggregates, missing sides filled with zero, and the derived columns
summary_row(data, name) ==
    LET OfName(row) == row["name"].s = name
        group == SelectSeq(data, OfName)
        buy   == aggregate_transactions(data, Buy, name)
        sell  == aggregate_transactions(data, Sell, name)
        buy_quantity    == side_value(data, Buy, buy.present, buy.quantity)
        buy_amount_eur  == side_value(data, Buy, buy.present, buy.amount)
        sell_quantity   == side_value(data, Sell, sell.present, sell.quantity)
        sell_amount_eur == side_value(data, Sell, sell.present, sell.amount)
    IN  [name     |-> Str(name),
         ticker   |-> first_valid(Column(group, "ticker")),
         currency |-> first_valid(Column(group, "currency")),
         buy_quantity      |-> buy_quantity,
         buy_amount_eur    |-> buy_amount_eur,
         buy_transactions  |-> IF buy.present THEN buy.count ELSE 0,
         sell_quantity     |-> sell_quantity,
         sell_amount_eur   |-> sell_amount_eur,
         sell_transactions |-> IF sell.present THEN sell.count ELSE 0,
         total_invested_eur |-> buy_amount_eur,
         shares_outstanding |-> RSub(buy_quantity, sell_quantity),
         weighted_avg_buy_price_eur |->
             calculate_weighted_average(buy_amount_eur, buy_quantity),
         weighted_avg_sell_price_eur |->
             calculate_weighted_average(sell_amount_eur, sell_quantity)]

summary_columns ==
    {"name", "ticker", "currency", "buy_quantity", "buy_amount_eur",
     "buy_transactions", "sell_quantity", "sell_amount_eur",
     "sell_transactions", "total_invested_eur", "shares_outstanding",
     "weighted_avg_buy_price_eur", "weighted_avg_sell_price_eur"}

\* no column reported missing
missing_columns_none(df) == {}

\* required_columns - set(self._transactions_df.columns)
missing_columns(df) == required_columns \ df.columns

\* a column read that is not there raises a KeyError: name and quantity are
\* read by the row filters, the other columns after the filtered table was
\* found to hold rows
prepare_transaction_summary(df) ==
    IF df.none \/ IsEmpty(df) THEN EmptyTable
    ELSE IF missing_columns(df) # {} THEN EmptyTable
    ELSE IF ~({"name", "quantity"} \subseteq df.columns) THEN Raised
    ELSE
    LET data == positive_rows(df)
        IsBuyOrSell(row) == row["type"] \in {Buy, Sell}
        names == SortedKeys({data[i]["name"].s : i \in 1..Len(data)})
    IN  IF data = <<>> THEN EmptyTable
        ELSE IF ~(required_columns \cup {"ticker", "currency"}
                    \subseteq df.columns) THEN Raised
        ELSE IF SelectSeq(data, IsBuyOrSell) = <<>> THEN EmptyTable
        ELSE Table(summary_columns,
                   [i \in 1..Len(names) |-> summary_row(data, names[i])])

\* ------------------------------------------------------------------------
\* MarketDataProvider
\* ------------------------------------------------------------------------

\* an Optional[float]: None, or a float
NoPrice == [some |-> FALSE, v |-> NaN]

Price(v) == [some |-> TRUE, v |-> v]

\* Python truthiness of an Optional[float] taken from the info dict
Truthy(p) == p.some /\ p.v # Num(0)

\* What the quote provider (yfinance) does when asked for a ticker:
\*   raises: Ticker() or history() raises; close: the last non-null close
\*   of the 5-day history (NoPrice: none); currentPrice, regularMarketPrice
\*   and currency: the entries of the info dict
\* get_stock_quote maps it to the (price, currency) pair it returns.
get_stock_quote(answer) ==
    IF answer.raises THEN [price |-> NoPrice, currency |-> None]
    ELSE IF answer.close.some
         THEN [price |-> answer.close, currency |-> answer.currency]
    ELSE LET price == IF Truthy(answer.currentPrice) THEN answer.currentPrice
                      ELSE answer.regularMarketPrice
         IN  IF Truthy(price)
             THEN [price |-> price, currency |-> answer.currency]
             ELSE [price |-> NoPrice, currency |-> answer.currency]

\* get_exchange_rate without the shortcut for identical currencies
get_exchange_rate_always_asks(from_currency, to_currency, answer) ==
    IF answer.ok THEN [rate |-> answer.rate, sent |-> TRUE]
    ELSE [rate |-> Num(1), sent |-> TRUE]

\* What the FX service does when asked for a rate to EUR: ok is whether the
\* request returned a body holding the rate.
\* get_exchange_rate's body, run when the cache missed: the rate it returns
\* and whether it sent a request to the service
get_exchange_rate(from_currency, to_currency, answer) ==
    IF from_currency = to_currency THEN [rate |-> Num(1), sent |-> FALSE]
    ELSE IF answer.ok THEN [rate |-> answer.rate, sent |-> TRUE]
    ELSE [rate |-> Num(1), sent |-> TRUE]

\* st.cache_data(ttl=3600)
ttl == 3600

NoEntry == [cached |-> FALSE, value |-> NoPrice, at |-> 0]

\* the cache keeping nothing for a lookup that gave no price
Entry_of_success(value, at) ==
    IF value = NoPrice \/ value = [price |-> NoPrice, currency |-> None]
    THEN NoEntry
    ELSE [cached |-> TRUE, value |-> value, at |-> at]

Entry(value, at) == [cached |-> TRUE, value |-> value, at |-> at]

\* an entry served for ever
Fresh_for_ever(entry, now) == entry.cached

\* an entry is served until ttl seconds after it was stored
Fresh(entry, now) == entry.cached /\ now < entry.at + ttl

\* ------------------------------------------------------------------------
\* PortfolioManager._get_current_price and calculate_stock_view
\* ------------------------------------------------------------------------

\* _get_current_price preferring the manual price
get_current_price_manual_first(price, ticker, manual_values) ==
    IF ticker \in DOMAIN manual_values THEN Price(manual_values[ticker])
    ELSE price

\* _get_current_price, given what get_stock_price returned for the ticker
get_current_price(price, ticker, manual_values) ==
    IF price.some THEN price
    ELSE IF ticker \in DOMAIN manual_values THEN Price(manual_values[ticker])
    ELSE NoPrice

PartiallyClosed == "Partially Closed"

Open == "Open"

Closed == "Closed"

\* _round_or_nan
round_or_nan(value) == IF IsNaN(value) THEN NaN ELSE Round2(value)

\* remaining_qty = max(buy_qty - sell_qty, 0.0)
remaining_quantity(buy_qty, sell_qty) == PyMax(RSub(buy_qty, sell_qty), Num(0))

\* whether the pass asks for a price: `remaining_qty > 0 and ticker`
asks_price(remaining_qty, ticker) ==
    RGt(remaining_qty, Num(0)) /\ ~ticker.null

\* unrealized_value_eur without the branches for closed positions
unrealized_value_open_only(remaining, asked, market_price, price_eur) ==
    IF asked /\ market_price.some THEN RMul(remaining, price_eur)
    ELSE NaN

\* unrealized_value_eur counted as zero wherever no price was resolved
unrealized_value_or_zero(remaining_qty, asked_price, market_price, price_eur) ==
    IF asked_price /\ market_price.some THEN RMul(remaining_qty, price_eur)
    ELSE Num(0)

\* unrealized_value_eur after the lookup branch and the closed-position
\* branches; price_eur (current_price_eur) is read only when a price was
\* resolved
unrealized_value(remaining_qty, asked_price, market_price, price_eur) ==
    LET after_lookup ==
            IF asked_price
            THEN (IF market_price.some
                  THEN RMul(remaining_qty, price_eur)
                  ELSE NaN)
            ELSE IF RLe(remaining_qty, Num(0)) THEN Num(0)
            ELSE NaN
    IN  IF IsNaN(after_lookup) /\ RLe(remaining_qty, Num(0)) THEN Num(0)
        ELSE after_lookup

\* total_value_eur falling back to the realized value alone
total_value_realized_alone(realized, unrealized, remaining_qty) ==
    IF ~IsNaN(unrealized) THEN RAdd(realized, unrealized) ELSE realized

\* total_value_eur
total_value(realized_value_eur, unrealized_value_eur, remaining_qty) ==
    IF ~IsNaN(unrealized_value_eur)
    THEN RAdd(realized_value_eur, unrealized_value_eur)
    ELSE IF RGt(remaining_qty, Num(0)) THEN NaN
    ELSE realized_value_eur

\* profit_eur and profit_pct without the guard on the invested amount
profit_unguarded(invested_eur, total_value_eur) ==
    IF ~IsNaN(total_value_eur)
    THEN [eur |-> RSub(total_value_eur, invested_eur),
          pct |-> RMul(RDiv(RSub(total_value_eur, invested_eur),
                            invested_eur), Num(100))]
    ELSE [eur |-> NaN, pct |-> NaN]

\* profit_eur and profit_pct
profit(invested_eur, total_value_eur) ==
    IF RGt(invested_eur, Num(0)) /\ ~IsNaN(total_value_eur)
    THEN [eur |-> RSub(total_value_eur, invested_eur),
          pct |-> RMul(RDiv(RSub(total_value_eur, invested_eur),
                            invested_eur), Num(100))]
    ELSE [eur |-> NaN, pct |-> NaN]

\* position_status with the test for Open before the one for
\* PartiallyClosed
position_status_open_first(remaining_qty, sell_qty) ==
    IF RGt(remaining_qty, Num(0)) THEN Open
    ELSE IF RGt(sell_qty, Num(0)) THEN PartiallyClosed
    ELSE Closed

\* position_status
position_status_of(remaining_qty, sell_qty) ==
    IF RGt(remaining_qty, Num(0)) /\ RGt(sell_qty, Num(0))
    THEN PartiallyClosed
    ELSE IF RGt(remaining_qty, Num(0)) THEN Open
    ELSE Closed

\* One pass of the loop of calculate_stock_view over a row of the summary.
\* stock_prices[t] is what get_stock_price returns for ticker t and
\* exchange_rates[c] what get_exchange_rate(c, "EUR") returns.  The record
\* holds the loop's local variables and, in view, the row appended to the
\* result; asked_price and asked_rate tell whether the pass called
\* _get_current_price and get_exchange_rate, and stock_price is what
\* get_stock_price returned inside _get_current_price.
stock_view_row(row, manual_values, stock_prices, exchange_rates) ==
    LET ticker     == row.ticker
        currency   == IF row.currency.null THEN EUR ELSE row.currency.s
        buy_qty    == row.buy_quantity
        sell_qty   == row.sell_quantity
        invested_eur == row.total_invested_eur
        remaining_qty == remaining_quantity(buy_qty, sell_qty)
        realized_value_eur == row.sell_amount_eur
        asked_price == asks_price(remaining_qty, ticker)
        stock_price == IF asked_price THEN stock_prices[ticker.s] ELSE NoPrice
        market_price == IF asked_price
                        THEN get_current_price(stock_price, ticker.s,
                                               manual_values)
                        ELSE NoPrice
        asked_rate == asked_price /\ market_price.some
        exchange_rate == IF asked_rate THEN exchange_rates[currency] ELSE NaN
        current_price_eur == IF asked_rate
                             THEN RMul(market_price.v, exchange_rate)
                             ELSE NaN
        unrealized_value_eur ==
            unrealized_value(remaining_qty, asked_price, market_price,
                             current_price_eur)
        total_value_eur ==
            total_value(realized_value_eur, unrealized_value_eur,
                        remaining_qty)
        profits == profit(invested_eur, total_value_eur)
        position_status == position_status_of(remaining_qty, sell_qty)
    IN  [name |-> row.name,
         ticker |-> ticker,
         currency |-> currency,
         buy_qty |-> buy_qty,
         sell_qty |-> sell_qty,
         invested_eur |-> invested_eur,
         remaining_qty |-> remaining_qty,
         realized_value_eur |-> realized_value_eur,
         asked_price |-> asked_price,
         asked_rate |-> asked_rate,
         stock_price |-> stock_price,
         market_price |-> market_price,
         exchange_rate |-> exchange_rate,
         current_price_eur |-> current_price_eur,
         unrealized_value_eur |-> unrealized_value_eur,
         total_value_eur |-> total_value_eur,
         profit_eur |-> profits.eur,
         profit_pct |-> profits.pct,
         position_status |-> position_status,
         view |->
           [Name |-> row.name,
            WeightedAvgBuyPriceEUR |->
                round_or_nan(row.weighted_avg_buy_price_eur),
            WeightedAvgSellPriceEUR |->
                round_or_nan(row.weighted_avg_sell_price_eur),
            CurrentPriceEUR |-> round_or_nan(current_price_eur),
            ProfitPct |-> round_or_nan(profits.pct),
            ProfitEUR |-> round_or_nan(profits.eur),
            RealizedValueEUR |-> round_or_nan(realized_value_eur),
            UnrealizedValueEUR |-> round_or_nan(unrealized_value_eur),
            TotalValueEUR |-> round_or_nan(total_value_eur),
            SharesOutstanding |-> round_or_nan(remaining_qty),
            PositionStatus |-> position_status]]

stock_view_columns ==
    {"Name", "Weighted Avg Buy Price (EUR)", "Weighted Avg Sell Price (EUR)",
     "Current Price (EUR)", "Profit (%)", "Profit (EUR)",
     "Realized Value (EUR)", "Unrealized Value (EUR)", "Total Value (EUR)",
     "Shares Outstanding", "Position Status"}

\* calculate_stock_view: the summary's rows are in name order already, which
\* is the order sort_values("Name") gives the result
calculate_stock_view(df, manual_values, stock_prices, exchange_rates) ==
    LET summary == prepare_transaction_summary(df)
    IN  IF summary = Raised THEN Raised
        ELSE IF IsEmpty(summary) THEN EmptyTable
        ELSE Table(stock_view_columns,
                   [i \in 1..Len(summary.rows) |->
                      stock_view_row(summary.rows[i], manual_values,
                                     stock_prices, exchange_rates)])

\* ------------------------------------------------------------------------
\* The sheets, provider answers and arguments the model draws
\* ------------------------------------------------------------------------

Headers ==
    {"Ticker", "Name", "Type", "Quantity", "Price per Unit EUR", "Currency",
     "Gross Amount", "Gross Amount EUR"}

\* a row of the sheet under the eight headers
RawRow(ticker, name, type, quantity, price_eur, currency, gross, gross_eur) ==
    [h \in Headers |->
        CASE h = "Ticker"             -> ticker
          [] h = "Name"               -> name
          [] h = "Type"               -> type
          [] h = "Quantity"           -> quantity
          [] h = "Price per Unit EUR" -> price_eur
          [] h = "Currency"           -> currency
          [] h = "Gross Amount"       -> gross
          [] h = "Gross Amount EUR"   -> gross_eur]

ACM == <<"A", "C", "M">>

USX == <<"U", "S", "X">>

ACME == <<"A", "C", "M", "E">>

GOLD == <<"G", "O", "L", "D">>

USCO == <<"U", "S", "C", "O">>

BUY == Str(<<"B", "U", "Y">>)

SELL == Str(<<"S", "E", "L", "L">>)

\* ACME: BUY 10 at 100
ScenarioBuy ==
    RawRow(Str(ACM), Str(ACME), BUY, Str(<<"1", "0">>),
           Str(<<"1", "0", "0">>), Str(EUR), Str(<<"1", "0", "0", "0">>),
           Str(<<"1", "0", "0", "0">>))

\* ACME: SELL 4 at 120
ScenarioSell ==
    RawRow(Str(ACM), Str(ACME), SELL, Str(<<"4">>),
           Str(<<"1", "2", "0">>), Str(EUR), Str(<<"4", "8", "0">>),
           Str(<<"4", "8", "0">>))

\* the rows the valuation is checked on: the two rows of the scenario; a
\* sale of 10 ACME; a purchase of GOLD, which has no ticker; a purchase in
\* USD priced by its gross amount only; a purchase without any price
ValuationRows ==
    { ScenarioBuy,
      ScenarioSell,
      RawRow(Str(ACM), Str(ACME), SELL, Str(<<"1", "0">>),
             Str(<<"1", "2", "0">>), Str(EUR), Str(<<"1", "2", "0", "0">>),
             Str(<<"1", "2", "0", "0">>)),
      RawRow(None, Str(GOLD), BUY, Str(<<"2">>),
             Str(<<"5", "0">>), Str(EUR), Str(<<"1", "0", "0">>),
             Str(<<"1", "0", "0">>)),
      RawRow(Str(USX), Str(USCO), BUY, Str(<<"5">>),
             None, Str(USD), Str(<<"2", "2", "0">>),
             Str(<<"2", "0", "0">>)),
      RawRow(Str(ACM), Str(ACME), BUY, Str(<<"1">>),
             None, Str(EUR), Str(<<"7">>), None) }

MaxViewRows == 2

\* the sequences over S of length at most n
BoundedSeq(S, n) == UNION {[1..k -> S] : k \in 0..n}

\* the sheet: fault is whether reading it fails (no service, an HTTP error,
\* any other exception); headers its first row; rows the rows below it
Sheet(headers, rows) ==
    [fault |-> FALSE, headers |-> headers,
     rows |-> [i \in 1..Len(rows) |-> [h \in headers |-> rows[i][h]]]]

TickerUniverse == {ACM, USX}

CurrencyUniverse == {EUR, USD}

QuoteAnswer(raises, close, currentPrice, regularMarketPrice, currency) ==
    [raises |-> raises, close |-> close, currentPrice |-> currentPrice,
     regularMarketPrice |-> regularMarketPrice, currency |-> currency]

\* the answers of the quote provider: it raises; a history closing at 110;
\* no history and an info price of 110 under regularMarketPrice only
\* (currentPrice 0); no history and no info price; a history closing at 0
QuoteAnswers ==
    { QuoteAnswer(TRUE, NoPrice, NoPrice, NoPrice, None),
      QuoteAnswer(FALSE, Price(Num(110)), NoPrice, NoPrice, Str(EUR)),
      QuoteAnswer(FALSE, NoPrice, Price(Num(0)), Price(Num(110)), Str(EUR)),
      QuoteAnswer(FALSE, NoPrice, NoPrice, NoPrice, None),
      QuoteAnswer(FALSE, Price(Num(0)), NoPrice, NoPrice, Str(EUR)) }

\* the answers of the FX service: a failure (exception, timeout, no rate in
\* the body), or a rate of 0.9
FxAnswers ==
    { [ok |-> FALSE, rate |-> NaN], [ok |-> TRUE, rate |-> Frac(9, 10)] }

\* the manual_values arguments: none, one under the ticker ACM, one under
\* the name GOLD
ManualValues == { <<>>, ACM :> Num(105), GOLD :> Num(60) }

\* ------------------------------------------------------------------------
\* State
\* ------------------------------------------------------------------------

VARIABLES
    sheet,            \* the spreadsheet behind GoogleSheetsClient
    raw_transactions, \* what get_transactions returned to the last load
    transactions_df,  \* PortfolioManager._transactions_df
    summary,          \* what _prepare_transaction_summary returned last
    stock_view,       \* what calculate_stock_view returned last
    quote_cache,      \* st.cache_data of get_stock_quote, by ticker
    price_cache,      \* st.cache_data of get_stock_price, by ticker
    fx_cache,         \* st.cache_data of get_exchange_rate, by currency
    clock,            \* seconds since the session began
    requests,         \* the provider requests the last call sent
    last_call,        \* the method called last, and its arguments
    positions,        \* PortfolioManager._positions
    portfolio_df,     \* what calculate_portfolio_value returned last
    tickers_needing_input, \* what get_tickers_needing_manual_input returned
    dashboard         \* where render_dashboard ended last

vars == <<sheet, raw_transactions, transactions_df, summary, stock_view,
          quote_cache, price_cache, fx_cache, clock, requests, last_call,
          positions, portfolio_df, tickers_needing_input, dashboard>>

\* self._positions: None, or the dict as the list of its items, each a
\* ticker with its quantity, currency and invested amount
NoPositions == [none |-> TRUE, items |-> <<>>]

Positions(items) == [none |-> FALSE, items |-> items]

NotRendered == "not rendered"

Call(method, manual_values) ==
    [method |-> method, manual_values |-> manual_values, raised |-> FALSE]

\* a call that ended in an exception
Failed(method, manual_values) ==
    [method |-> method, manual_values |-> manual_values, raised |-> TRUE]

InitManager ==
    /\ raw_transactions = NoTable
    /\ transactions_df = NoTable
    /\ summary = NoTable
    /\ stock_view = NoTable
    /\ quote_cache = [t \in TickerUniverse |-> NoEntry]
    /\ price_cache = [t \in TickerUniverse |-> NoEntry]
    /\ fx_cache = [c \in CurrencyUniverse |-> NoEntry]
    /\ clock = 0
    /\ requests = {}
    /\ last_call = Call("__init__", <<>>)
    /\ positions = NoPositions
    /\ portfolio_df = NoTable
    /\ tickers_needing_input = <<>>
    /\ dashboard = NotRendered

\* ------------------------------------------------------------------------
\* GoogleSheetsClient.get_transactions and PortfolioManager.load_transactions
\* ------------------------------------------------------------------------

\* get_transactions: None on a failure and on a sheet without values, else
\* the rows under the headers of the first row
get_transactions(s) ==
    IF s.fault THEN NoTable
    ELSE IF s.headers = {} /\ s.rows = <<>> THEN NoTable
    ELSE Table(s.headers, s.rows)

\* the table handed to clean_transactions, after the call: clean works on
\* transactions.copy()
transactions_after_clean(transactions) == transactions

LoadTransactions ==
    /\ raw_transactions' = transactions_after_clean(get_transactions(sheet))
    /\ \E cleaned \in {clean_transactions(get_transactions(sheet))} :
         IF cleaned = Raised
         THEN /\ transactions_df' = transactions_df
              /\ last_call' = Failed("load_transactions", <<>>)
         ELSE /\ transactions_df' = cleaned
              /\ last_call' = Call("load_transactions", <<>>)
    /\ requests' = {}
    /\ UNCHANGED <<positions, portfolio_df, tickers_needing_input, dashboard,
                   sheet, summary, stock_view, quote_cache, price_cache,
                   fx_cache, clock>>

\* _prepare_transaction_summary filtering self._transactions_df in place
transactions_after_summary_in_place(df) ==
    IF df.none \/ required_columns \ df.columns # {} THEN df
    ELSE Table(df.columns, positive_rows(df))

\* what _prepare_transaction_summary leaves in self._transactions_df: it
\* works on a copy, and every later step builds a new frame
transactions_after_summary(df) == df

PrepareTransactionSummary ==
    /\ summary' = prepare_transaction_summary(transactions_df)
    /\ transactions_df' = transactions_after_summary(transactions_df)
    /\ requests' = {}
    /\ last_call' = Call("_prepare_transaction_summary", <<>>)
    /\ UNCHANGED <<positions, portfolio_df, tickers_needing_input, dashboard,
                   sheet, raw_transactions, stock_view, quote_cache,
                   price_cache, fx_cache, clock>>

\* ------------------------------------------------------------------------
\* PortfolioManager.calculate_stock_view with its cached lookups
\* ------------------------------------------------------------------------

\* get_stock_price(t) through the two caches; quotes[t] is the provider's
\* answer if it is asked
cached_stock_quote(t, quotes) ==
    IF Fresh(quote_cache[t], clock) THEN quote_cache[t].value
    ELSE get_stock_quote(quotes[t])

cached_stock_price(t, quotes) ==
    IF Fresh(price_cache[t], clock) THEN price_cache[t].value
    ELSE cached_stock_quote(t, quotes).price

\* get_exchange_rate(c, "EUR") through its cache
cached_exchange_rate(c, rates) ==
    IF Fresh(fx_cache[c], clock) THEN fx_cache[c].value
    ELSE get_exchange_rate(c, EUR, rates[c]).rate

\* the tickers calculate_stock_view asks a price for: those of the summary
\* rows with a remaining quantity
asked_tickers(df) ==
    LET rows == prepare_transaction_summary(df).rows
    IN  {rows[i].ticker.s :
           i \in {j \in 1..Len(rows) :
                    /\ ~rows[j].ticker.null
                    /\ RGt(RSub(rows[j].buy_quantity, rows[j].sell_quantity),
                           Num(0))}}

\* the provider's answers are drawn for the keys a call can ask about; the
\* other keys get the first answer, which is never read
AnswersFor(keys, universe, answers) ==
    {[k \in universe |-> IF k \in keys THEN f[k]
                         ELSE CHOOSE a \in answers : TRUE] :
        f \in [keys -> answers]}

CalculateStockView ==
    \E manual_values \in ManualValues,
       quotes \in AnswersFor({t \in asked_tickers(transactions_df) :
                                 /\ ~Fresh(price_cache[t], clock)
                                 /\ ~Fresh(quote_cache[t], clock)},
                             TickerUniverse, QuoteAnswers),
       rates \in AnswersFor({c \in CurrencyUniverse :
                                ~Fresh(fx_cache[c], clock)},
                            CurrencyUniverse, FxAnswers) :
    \E stock_prices \in {[t \in TickerUniverse |->
                            cached_stock_price(t, quotes)]},
       exchange_rates \in {[c \in CurrencyUniverse |->
                              cached_exchange_rate(c, rates)]} :
    \E result \in {calculate_stock_view(transactions_df, manual_values,
                                        stock_prices, exchange_rates)} :
      LET rows == result.rows
          price_calls == {rows[i].ticker.s :
                            i \in {j \in 1..Len(rows) : rows[j].asked_price}}
          rate_calls == {rows[i].currency :
                            i \in {j \in 1..Len(rows) : rows[j].asked_rate}}
          quote_calls == {t \in price_calls : ~Fresh(price_cache[t], clock)}
          quote_requests == {t \in quote_calls :
                               ~Fresh(quote_cache[t], clock)}
          rate_misses == {c \in rate_calls : ~Fresh(fx_cache[c], clock)}
      IN  /\ stock_view' = result
          /\ price_cache' =
               [t \in TickerUniverse |->
                  IF t \in quote_calls
                  THEN Entry(stock_prices[t], clock) ELSE price_cache[t]]
          /\ quote_cache' =
               [t \in TickerUniverse |->
                  IF t \in quote_requests
                  THEN Entry(get_stock_quote(quotes[t]), clock)
                  ELSE quote_cache[t]]
          /\ fx_cache' =
               [c \in CurrencyUniverse |->
                  IF c \in rate_misses
                  THEN Entry(exchange_rates[c], clock) ELSE fx_cache[c]]
          /\ requests' =
               {[to |-> "quote", key |-> t, answer |-> quotes[t]] :
                   t \in quote_requests}
               \cup {[to |-> "fx", key |-> c, answer |-> rates[c]] :
                       c \in {m \in rate_misses :
                                get_exchange_rate(m, EUR, rates[m]).sent}}
          /\ last_call' = Call("calculate_stock_view", manual_values)
          /\ transactions_df' = transactions_after_summary(transactions_df)
          /\ UNCHANGED <<positions, portfolio_df, tickers_needing_input, dashboard,
                         sheet, raw_transactions, summary, clock>>

\* ------------------------------------------------------------------------
\* The valuation on a loaded sheet
\* ------------------------------------------------------------------------

Init ==
    /\ sheet \in {Sheet(Headers, rows) :
                    rows \in BoundedSeq(ValuationRows, MaxViewRows)}
    /\ InitManager

Next == LoadTransactions \/ PrepareTransactionSummary \/ CalculateStockView

Spec == Init /\ [][Next]_vars

\* ------------------------------------------------------------------------
\* Properties of the valuation (calculate_stock_view)
\* ------------------------------------------------------------------------

\* the rows calculate_stock_view has just returned
ViewRows ==
    IF last_call.method = "calculate_stock_view"
    THEN {stock_view.rows[i] : i \in 1..Len(stock_view.rows)}
    ELSE {}

ScenarioSheet == Sheet(Headers, <<ScenarioBuy, ScenarioSell>>)

ScenarioLoaded == sheet = ScenarioSheet /\ ~transactions_df.none

ScenarioPriced(v) ==
    v.market_price = Price(Num(110)) /\ v.exchange_rate = Num(1)

\* C1: from the rows ACME BUY 10 at 100 and ACME SELL 4 at 120 the
\* aggregate is buy 10 / 1000, sell 4 / 480, 6 shares outstanding and
\* weighted averages 100 and 120; with a current price of 110 and an FX
\* rate of 1.0 the valuation is unrealized 660, realized 480, total 1140,
\* profit 140, 14.0 % and the status PartiallyClosed.
C1_Scenario ==
    /\ (ScenarioLoaded /\ last_call.method = "_prepare_transaction_summary")
         => /\ Len(summary.rows) = 1
            /\ summary.rows[1].name = Str(ACME)
            /\ summary.rows[1].buy_quantity = Num(10)
            /\ summary.rows[1].buy_amount_eur = Num(1000)
            /\ summary.rows[1].sell_quantity = Num(4)
            /\ summary.rows[1].sell_amount_eur = Num(480)
            /\ summary.rows[1].shares_outstanding = Num(6)
            /\ summary.rows[1].weighted_avg_buy_price_eur = Num(100)
            /\ summary.rows[1].weighted_avg_sell_price_eur = Num(120)
    /\ (ScenarioLoaded /\ last_call.method = "calculate_stock_view")
         => /\ Len(stock_view.rows) = 1
            /\ ScenarioPriced(stock_view.rows[1])
                 => /\ stock_view.rows[1].unrealized_value_eur = Num(660)
                    /\ stock_view.rows[1].realized_value_eur = Num(480)
                    /\ stock_view.rows[1].total_value_eur = Num(1140)
                    /\ stock_view.rows[1].profit_eur = Num(140)
                    /\ stock_view.rows[1].profit_pct = Num(14)
                    /\ stock_view.rows[1].position_status = PartiallyClosed
                    /\ stock_view.rows[1].view.UnrealizedValueEUR = Num(660)
                    /\ stock_view.rows[1].view.TotalValueEUR = Num(1140)
                    /\ stock_view.rows[1].view.ProfitEUR = Num(140)
                    /\ stock_view.rows[1].view.ProfitPct = Num(14)

\* the scenario was aggregated and then valued at a provider price of 110
C1_Witness ==
    /\ ScenarioLoaded
    /\ Len(summary.rows) = 1
    /\ last_call.method = "calculate_stock_view"
    /\ Len(stock_view.rows) = 1
    /\ ScenarioPriced(stock_view.rows[1])
    /\ stock_view.rows[1].stock_price = Price(Num(110))

\* C2: a security whose shares outstanding are <= 0 has an unrealized value
\* of exactly 0, whatever the providers and the manual prices hold and
\* whether or not it has a ticker.
C2_ClosedUnrealizedZero ==
    \A v \in ViewRows :
        RLe(RSub(v.buy_qty, v.sell_qty), Num(0))
          => /\ v.unrealized_value_eur = Num(0)
             /\ v.view.UnrealizedValueEUR = Num(0)

\* an oversold security with a ticker that has a manual price
C2_Witness ==
    \E v \in ViewRows :
        /\ RGt(Num(0), RSub(v.buy_qty, v.sell_qty))
        /\ ~v.ticker.null
        /\ v.ticker.s \in DOMAIN last_call.manual_values

\* C3: the status is PartiallyClosed when remaining_qty > 0 and
\* sell_quantity > 0, else Open when remaining_qty > 0, else Closed, with
\* remaining_qty = max(shares_outstanding, 0), whether or not a price was
\* resolved.
C3_PositionStatus ==
    \A v \in ViewRows :
        LET shares_outstanding == RSub(v.buy_qty, v.sell_qty)
            held == RGt(shares_outstanding, Num(0))
        IN  /\ v.remaining_qty = (IF held THEN shares_outstanding ELSE Num(0))
            /\ (held /\ RGt(v.sell_qty, Num(0)))
                 => v.position_status = PartiallyClosed
            /\ (held /\ ~RGt(v.sell_qty, Num(0)))
                 => v.position_status = Open
            /\ ~held => v.position_status = Closed

\* a partially closed position without a price beside states with one
C3_Witness ==
    \E v \in ViewRows :
        /\ v.position_status = PartiallyClosed
        /\ v.asked_price
        /\ ~v.market_price.some

\* C4: the price of a ticker is the provider's when the provider resolves
\* one, else manual_values[ticker] when that key is present, else
\* unresolved; a provider that raises only makes the provider's price
\* unresolved.
C4_ResolvePrice ==
    /\ last_call.method = "calculate_stock_view" => ~stock_view.none
    /\ \A v \in ViewRows :
         v.asked_price =>
           /\ v.stock_price.some => v.market_price = v.stock_price
           /\ (~v.stock_price.some
                 /\ v.ticker.s \in DOMAIN last_call.manual_values)
                => v.market_price
                     = Price(last_call.manual_values[v.ticker.s])
           /\ (~v.stock_price.some
                 /\ v.ticker.s \notin DOMAIN last_call.manual_values)
                => ~v.market_price.some
           /\ \A r \in requests :
                (r.to = "quote" /\ r.key = v.ticker.s)
                  => /\ r.answer.raises => ~v.stock_price.some
                     /\ r.answer.close.some => v.stock_price = r.answer.close

\* the provider raised and the manual price of the ticker was used
C4_Witness ==
    \E v \in ViewRows :
        /\ v.asked_price
        /\ \E r \in requests :
             r.to = "quote" /\ r.key = v.ticker.s /\ r.answer.raises
        /\ v.market_price = Price(Num(105))

\* C5: the rate between identical currencies is 1.0 and no request is
\* sent for it; a failed request gives 1.0 as well, and the EUR price is
\* then the price in the source currency.
C5_ResolveFx ==
    /\ \A r \in requests : r.to = "fx" => r.key # EUR
    /\ \A v \in ViewRows :
         v.asked_rate =>
           /\ v.currency = EUR => v.exchange_rate = Num(1)
           /\ \A r \in requests :
                (r.to = "fx" /\ r.key = v.currency /\ ~r.answer.ok)
                  => /\ v.exchange_rate = Num(1)
                     /\ v.current_price_eur = v.market_price.v

\* a USD position valued while the FX request failed
C5_Witness ==
    \E v \in ViewRows :
        /\ v.asked_rate
        /\ v.currency = USD
        /\ \E r \in requests :
             r.to = "fx" /\ r.key = USD /\ ~r.answer.ok
        /\ v.current_price_eur = Num(110)

\* C6: with remaining_qty > 0 and no price, unrealized and total value are
\* both unresolved; whenever unrealized is resolved, total = realized +
\* unrealized, and realized is the aggregate's sell_amount_eur.
C6_TotalValue ==
    last_call.method = "calculate_stock_view" =>
      \A i \in 1..Len(stock_view.rows) :
        LET v == stock_view.rows[i]
            a == prepare_transaction_summary(transactions_df).rows[i]
        IN  /\ v.realized_value_eur = a.sell_amount_eur
            /\ (RGt(v.remaining_qty, Num(0)) /\ ~v.market_price.some)
                 => /\ IsNaN(v.unrealized_value_eur)
                    /\ IsNaN(v.total_value_eur)
                    /\ IsNaN(v.view.TotalValueEUR)
            /\ ~IsNaN(v.unrealized_value_eur)
                 => v.total_value_eur
                      = RAdd(v.realized_value_eur, v.unrealized_value_eur)

\* a partially sold position (realized > 0) whose price is unresolved
C6_Witness ==
    \E v \in ViewRows :
        /\ RGt(v.remaining_qty, Num(0))
        /\ RGt(v.realized_value_eur, Num(0))
        /\ ~v.market_price.some

\* C7: profit_eur and profit_pct are resolved exactly when
\* total_invested_eur > 0 and total_value_eur is resolved; then profit_eur =
\* total - invested and profit_pct = profit_eur / invested * 100; they are
\* never infinite.
C7_Profit ==
    \A v \in ViewRows :
        LET computed == RGt(v.invested_eur, Num(0)) /\ ~IsNaN(v.total_value_eur)
        IN  /\ computed
                 => /\ v.profit_eur = RSub(v.total_value_eur, v.invested_eur)
                    /\ IsFinite(v.profit_pct)
                    /\ RMul(v.profit_pct, v.invested_eur)
                         = RMul(v.profit_eur, Num(100))
            /\ ~computed => IsNaN(v.profit_eur) /\ IsNaN(v.profit_pct)

\* a position with nothing invested and a resolved total value
C7_Witness ==
    \E v \in ViewRows :
        /\ v.invested_eur = Num(0)
        /\ RGt(v.buy_qty, Num(0))
        /\ ~IsNaN(v.total_value_eur)
        /\ IsNaN(v.profit_pct)

\* ------------------------------------------------------------------------
\* The aggregation on a loaded sheet
\* ------------------------------------------------------------------------

DIV == Str(<<"D", "I", "V">>)

\* the rows the aggregation is checked on, beside the two of the scenario:
\* a purchase of 3 ACME priced by its gross amount of 200 only; a sale of
\* half a share; a dividend of GOLD; a purchase of GOLD (no ticker, a
\* gross amount that holds a fee); a
\* purchase without any price; a row with a zero quantity; a row without a
\* name; a row with a negative quantity; a row without a quantity
AggregateRows ==
    { ScenarioBuy,
      ScenarioSell,
      RawRow(Str(ACM), Str(ACME), BUY, Str(<<"3">>), None, Str(EUR),
             Str(<<"2", "0", "0">>), Str(<<"2", "0", "0">>)),
      RawRow(None, Str(ACME), SELL, Str(<<"0", ",", "5">>),
             Str(<<"1", "3", "0">>), Str(EUR), Str(<<"6", "5">>),
             Str(<<"6", "5">>)),
      RawRow(None, Str(GOLD), DIV, Str(<<"1">>), Str(<<"3">>), Str(EUR),
             Str(<<"3">>), Str(<<"3">>)),
      RawRow(None, Str(GOLD), BUY, Str(<<"2">>), Str(<<"5", "0">>),
             Str(USD), Str(<<"1", "1", "0">>), Str(<<"1", "0", "1">>)),
      RawRow(Str(ACM), Str(ACME), BUY, Str(<<"1">>), None, Str(EUR),
             Str(<<"7">>), None),
      RawRow(Str(ACM), Str(ACME), SELL, Str(<<"0">>), Str(<<"9", "0">>),
             Str(EUR), Str(<<"9", "0">>), Str(<<"9", "0">>)),
      RawRow(Str(USX), None, BUY, Str(<<"2">>), Str(<<"4", "0">>),
             Str(USD), Str(<<"8", "0">>), Str(<<"8", "0">>)),
      RawRow(Str(ACM), Str(ACME), BUY, Str(<<"-", "1">>),
             Str(<<"1", "0", "0">>), Str(EUR), Str(<<"1", "0", "0">>),
             Str(<<"1", "0", "0">>)),
      RawRow(Str(ACM), Str(ACME), SELL, None, Str(<<"9", "0">>),
             Str(EUR), Str(<<"9", "0">>), Str(<<"9", "0">>)) }

\* the header rows of the sheets the aggregation is checked on: all eight
\* headers, and all but one of those the aggregation reads
AggregateHeaders ==
    {Headers} \cup {Headers \ {h} : h \in Headers \ {"Gross Amount"}}

MaxAggregateRows == 2

InitAggregate ==
    /\ sheet \in {Sheet(headers, rows) :
                    headers \in AggregateHeaders,
                    rows \in BoundedSeq(AggregateRows, MaxAggregateRows)}
    /\ InitManager

NextAggregate == LoadTransactions \/ PrepareTransactionSummary

SpecAggregate == InitAggregate /\ [][NextAggregate]_vars

\* the rows _prepare_transaction_summary has just returned
SummaryRows ==
    IF last_call.method = "_prepare_transaction_summary"
    THEN {summary.rows[i] : i \in 1..Len(summary.rows)}
    ELSE {}

\* C8: in every aggregate shares_outstanding = buy_quantity - sell_quantity,
\* total_invested_eur = buy_amount_eur and, when buy_quantity > 0,
\* weighted_avg_buy_price_eur * buy_quantity = buy_amount_eur.
C8_AggregateIdentities ==
    \A a \in SummaryRows :
        /\ a.shares_outstanding = RSub(a.buy_quantity, a.sell_quantity)
        /\ a.total_invested_eur = a.buy_amount_eur
        /\ RGt(a.buy_quantity, Num(0))
             => RMul(a.weighted_avg_buy_price_eur, a.buy_quantity)
                  = a.buy_amount_eur

\* a security bought at an average that is no whole number, and sold too
C8_Witness ==
    \E a \in SummaryRows :
        /\ RGt(a.buy_quantity, Num(0))
        /\ RGt(a.sell_quantity, Num(0))
        /\ a.weighted_avg_buy_price_eur.d > 1

Blank == Str(<<" ">>)

\* rows as they are typed into the sheet: types in lower case between
\* spaces, an unknown type, a blank and a missing type; currencies in lower
\* case, an unknown and a missing currency; and rows that carry neither an
\* amount nor a ticker nor a name, beside one that has a name only
CleanRows ==
    { ScenarioBuy,
      RawRow(Str(ACM), Str(ACME), Str(<<" ", "b", "u", "y", " ">>),
             Str(<<"1">>), Str(<<"9", "0">>), Str(<<"u", "s", "d">>),
             Str(<<"9", "0">>), Str(<<"9", "0">>)),
      RawRow(Str(ACM), Str(ACME), Str(<<"H", "O", "L", "D">>),
             Str(<<"1">>), Str(<<"9", "0">>), Str(EUR),
             Str(<<"9", "0">>), Str(<<"9", "0">>)),
      RawRow(Str(ACM), Str(ACME), None,
             Str(<<"1">>), Str(<<"9", "0">>), Str(EUR),
             Str(<<"9", "0">>), Str(<<"9", "0">>)),
      RawRow(Str(ACM), Str(ACME), Blank,
             Str(<<"1">>), Str(<<"9", "0">>), Str(<<"G", "B", "P">>),
             Str(<<"9", "0">>), Str(<<"9", "0">>)),
      RawRow(Str(ACM), Str(ACME), Str(<<"d", "i", "v">>),
             Str(<<"1">>), Str(<<"3">>), Str(<<"G", "B", "P">>),
             Str(<<"3">>), Str(<<"3">>)),
      RawRow(Str(USX), Str(USCO), SELL,
             Str(<<"1">>), Str(<<"9", "0">>), None,
             Str(<<"9", "0">>), Str(<<"9", "0">>)),
      RawRow(None, Blank, BUY,
             None, None, Str(EUR), Str(<<"0">>), None),
      RawRow(Blank, None, SELL,
             None, None, Str(USD), None, None),
      RawRow(None, Str(GOLD), BUY,
             None, None, Str(EUR), Str(<<"0">>), None) }

\* the header rows of the sheets the cleaning is checked on
CleanHeaders ==
    { Headers, Headers \ {"Type"}, Headers \ {"Currency"},
      Headers \ {"Name"} }

MaxCleanRows == 2

\* a row is typed into the sheet
SheetAppend ==
    /\ ~sheet.fault
    /\ sheet.headers # {}
    /\ Len(sheet.rows) < MaxCleanRows
    /\ \E row \in CleanRows :
         sheet' = Sheet(sheet.headers, Append(sheet.rows, row))
    /\ UNCHANGED <<positions, portfolio_df, tickers_needing_input, dashboard,
                   raw_transactions, transactions_df, summary, stock_view,
                   quote_cache, price_cache, fx_cache, clock, requests,
                   last_call>>

\* the service stops answering, or answers again
SheetBreak ==
    /\ sheet' = [sheet EXCEPT !.fault = ~@]
    /\ UNCHANGED <<positions, portfolio_df, tickers_needing_input, dashboard,
                   raw_transactions, transactions_df, summary, stock_view,
                   quote_cache, price_cache, fx_cache, clock, requests,
                   last_call>>

\* every cell of the sheet is deleted, the header row included
SheetClear ==
    /\ sheet.headers # {}
    /\ sheet' = [Sheet({}, <<>>) EXCEPT !.fault = sheet.fault]
    /\ UNCHANGED <<positions, portfolio_df, tickers_needing_input, dashboard,
                   raw_transactions, transactions_df, summary, stock_view,
                   quote_cache, price_cache, fx_cache, clock, requests,
                   last_call>>

InitClean ==
    /\ sheet \in {Sheet(headers, <<>>) : headers \in CleanHeaders}
    /\ InitManager

NextClean == SheetAppend \/ SheetBreak \/ SheetClear \/ LoadTransactions

SpecClean == InitClean /\ [][NextClean]_vars

\* the rows load_transactions has just read, and the rows it has kept
Loaded == last_call.method = "load_transactions" /\ ~raw_transactions.none

RawHas(header) == header \in raw_transactions.columns

\* the type of a raw row is a key of allowed_types after trim and uppercase
TypeSupported(row) ==
    /\ ~row["Type"].null
    /\ \E kv \in allowed_types : kv[1] = Upper(Strip(row["Type"].s))

\* the currency of a raw row is an allowed one after trim and uppercase
CurrencySupported(row) ==
    /\ ~row["Currency"].null
    /\ Upper(Strip(row["Currency"].s)) \in allowed_currencies

\* a raw row with no amount, no ticker and no name
IsPlaceholder(row) ==
    /\ \/ IsNaN(convert_euro_number(trim_cell(row["Gross Amount"])))
       \/ convert_euro_number(trim_cell(row["Gross Amount"])) = Num(0)
    /\ trim_cell(row["Ticker"]).null
    /\ trim_cell(row["Name"]).null

\* the raw rows clean_transactions has no reason to exclude
Passes(row) ==
    /\ RawHas("Type") => TypeSupported(row)
    /\ RawHas("Currency") => CurrencySupported(row)
    /\ (RawHas("Gross Amount") /\ RawHas("Ticker") /\ RawHas("Name"))
         => ~IsPlaceholder(row)

KeptIndices ==
    SelectSeq([i \in 1..Len(raw_transactions.rows) |-> i],
              LAMBDA i : Passes(raw_transactions.rows[i]))

PassesTypeAndCurrency(row) ==
    /\ RawHas("Type") => TypeSupported(row)
    /\ RawHas("Currency") => CurrencySupported(row)

NumberHeaders == {"Quantity"}

EuroNumber == Str(<<"1", ".", "2", "3", "4", ",", "5", "6">>)

EuroPercent == Str(<<"1", "2", ",", "5", "%">>)

\* what is typed into a numeric column: European numbers, percentages,
\* a number with a decimal point, a negative number, a number between
\* blanks, and cells that are no number at all
NumberCells ==
    { EuroNumber,
      EuroPercent,
      Str(<<"1", "2", ".", "5">>),
      Str(<<"-", "3", ",", "5">>),
      Str(<<"5", "0", "%">>),
      Str(<<" ", "7", " ">>),
      Str(<<"1", ".", "0", "0", "0">>),
      Str(<<"a", "b", "c">>),
      Str(<<"1", ",", "2", ",", "3">>),
      Str(<<"%">>),
      Str(<<>>),
      None }

MaxNumberRows == 2

\* a row with one numeric cell is typed into the sheet
SheetAppendNumber ==
    /\ Len(sheet.rows) < MaxNumberRows
    /\ \E cell \in NumberCells :
         sheet' = Sheet(sheet.headers,
                        Append(sheet.rows, [h \in NumberHeaders |-> cell]))
    /\ UNCHANGED <<positions, portfolio_df, tickers_needing_input, dashboard,
                   raw_transactions, transactions_df, summary, stock_view,
                   quote_cache, price_cache, fx_cache, clock, requests,
                   last_call>>

InitNumbers ==
    /\ sheet = Sheet(NumberHeaders, <<>>)
    /\ InitManager

NextNumbers == SheetAppendNumber \/ LoadTransactions

SpecNumbers == InitNumbers /\ [][NextNumbers]_vars

\* the number the specification describes for a cell: the "%" removed and
\* remembered, every "." removed, "," replaced by ".", the rest parsed, the
\* result divided by 100 for a percentage; null for what does not parse
ParsedAsDescribed(cell) ==
    IF cell.null THEN NaN
    ELSE LET text == Strip(cell.s)
             percent == Contains(text, "%")
             plain == Replace(Remove(Remove(text, "%"), "."), ",", ".")
             number == ToNumeric(plain)
         IN  IF IsNaN(number) THEN NaN
             ELSE IF percent THEN RDiv(number, Num(100))
             ELSE number

C14_EmptyInput ==
    (last_call.method = "load_transactions"
       /\ (raw_transactions.none \/ raw_transactions.rows = <<>>))
      => transactions_df = EmptyTable

\* a load from a sheet that holds rows while the service fails
C14_Witness ==
    /\ last_call.method = "load_transactions"
    /\ sheet.fault
    /\ sheet.rows # <<>>
    /\ raw_transactions.none
    /\ transactions_df = EmptyTable

\* the cell clean_transactions makes of the cell of a raw row under header
CleanedCell(row, header) ==
    LET trimmed == trim_cell(row[header])
    IN  CASE header = "Type" ->
               allowed_types_get(Upper(Strip(row[header].s)))
          [] header = "Currency" -> Str(Upper(Strip(row[header].s)))
          [] rename_map(header) \in numeric_columns ->
               convert_euro_number(trimmed)
          [] OTHER -> trimmed

\* the output rows are the kept raw rows, in their order, indexed 0, 1, ...
KeptInOrder ==
    Loaded =>
        /\ NRows(transactions_df) = Len(KeptIndices)
        /\ \A j \in 1..Len(KeptIndices) :
             /\ transactions_df.index[j] = j - 1
             /\ \A h \in raw_transactions.columns :
                  transactions_df.rows[j][rename_map(h)]
                    = CleanedCell(raw_transactions.rows[KeptIndices[j]], h)

\* C15: the rows clean outputs are the kept input rows in their input
\* order, indexed contiguously from 0, and the table passed to clean is as
\* the source returned it after the call.
C15_OrderKept ==
    /\ []KeptInOrder
    /\ [][sheet' = sheet => raw_transactions' = get_transactions(sheet)]_vars

\* a row kept behind a dropped one
C15_Witness ==
    /\ Loaded
    /\ Len(raw_transactions.rows) = 2
    /\ KeptIndices = <<2>>
    /\ transactions_df.index = <<0>>

\* C16: the aggregation returns an empty result, and raises nothing, when
\* one of name, quantity, price_per_unit_eur, gross_amount_eur, type is no
\* column of the stored table, and when no transactions are loaded.
C16_MissingColumns ==
    (last_call.method = "_prepare_transaction_summary"
       /\ (transactions_df.none
             \/ required_columns \ transactions_df.columns # {}))
      => summary = EmptyTable

\* rows with a name and a positive quantity in a table without prices
C16_Witness ==
    /\ last_call.method = "_prepare_transaction_summary"
    /\ ~transactions_df.none
    /\ required_columns \ transactions_df.columns = {"price_per_unit_eur"}
    /\ \E i \in 1..NRows(transactions_df) :
         /\ ~transactions_df.rows[i]["name"].null
         /\ RGt(transactions_df.rows[i]["quantity"], Num(0))
    /\ summary = EmptyTable

\* ------------------------------------------------------------------------
\* The valuation repeated while time passes
\* ------------------------------------------------------------------------

\* USCO: BUY 5, priced in USD
UsdBuy ==
    RawRow(Str(USX), Str(USCO), BUY, Str(<<"5">>), None, Str(USD),
           Str(<<"2", "2", "0">>), Str(<<"2", "0", "0">>))

MaxTicks == 3

\* half a cache lifetime passes
Tick ==
    /\ clock < MaxTicks * (ttl \div 2)
    /\ clock' = clock + ttl \div 2
    /\ UNCHANGED <<positions, portfolio_df, tickers_needing_input, dashboard,
                   sheet, raw_transactions, transactions_df, summary,
                   stock_view, quote_cache, price_cache, fx_cache, requests,
                   last_call>>

InitCache ==
    /\ sheet = Sheet(Headers, <<UsdBuy>>)
    /\ InitManager

NextCache == LoadTransactions \/ CalculateStockView \/ Tick

SpecCache == InitCache /\ [][NextCache]_vars

\* an entry stored less than one hour ago
InWindow(entry) == entry.cached /\ clock - entry.at < 3600

\* an external call for key is among the calls an operation made
Requested(calls, to, key) == \E q \in calls : q.to = to /\ q.key = key

\* C17: price and FX lookups are memoized per key for one hour: a lookup
\* inside the window of its key returns the memoized value without an
\* external call, a lookup after the window calls the provider again.
C17_Memoized ==
    [][(last_call'.method = "calculate_stock_view" /\ clock' = clock) =>
         \A i \in 1..Len(stock_view'.rows) :
           LET v == stock_view'.rows[i]
           IN  /\ v.asked_price =>
                    IF InWindow(price_cache[v.ticker.s])
                    THEN /\ v.stock_price = price_cache[v.ticker.s].value
                         /\ ~Requested(requests', "quote", v.ticker.s)
                    ELSE Requested(requests', "quote", v.ticker.s)
               /\ (v.asked_rate /\ v.currency # EUR) =>
                    IF InWindow(fx_cache[v.currency])
                    THEN /\ v.exchange_rate = fx_cache[v.currency].value
                         /\ ~Requested(requests', "fx", v.currency)
                    ELSE Requested(requests', "fx", v.currency)]_vars

\* a valuation served from a price fetched again after the first window
C17_Witness ==
    /\ last_call.method = "calculate_stock_view"
    /\ \E i \in 1..Len(stock_view.rows) : stock_view.rows[i].asked_price
    /\ price_cache[USX].cached
    /\ price_cache[USX].at = 3600
    /\ clock = 5400
    /\ ~Requested(requests, "quote", USX)

\* C18: the transaction source answers a load with nothing (unresolved)
\* exactly when the service failed; a sheet that holds no data gives an
\* empty table instead, so that the two can be told apart.
C18_FailureDistinct ==
    [][sheet' = sheet =>
         /\ raw_transactions'.none <=> sheet.fault
         /\ (~sheet.fault /\ sheet.rows = <<>>)
              => (~raw_transactions'.none /\ raw_transactions'.rows = <<>>)
      ]_vars

\* a working service reading a sheet without any cell: the load got nothing
C18_Witness ==
    /\ last_call.method = "load_transactions"
    /\ ~sheet.fault
    /\ sheet.headers = {}
    /\ raw_transactions.none
    /\ transactions_df = EmptyTable

\* C19: every security of the aggregate output has at least one Buy or
\* Sell row; a name whose rows are all of other types (Dividend, Interest,
\* Pension, ...) does not appear, also when other names of the same input
\* do have Buy or Sell rows.
C19_BuyOrSellOnly ==
    \A a \in SummaryRows : a.buy_transactions + a.sell_transactions >= 1

\* an aggregate of a name that has a dividend only, beside a bought name
C19_Witness ==
    /\ \E a \in SummaryRows :
         /\ a.buy_transactions = 0
         /\ a.sell_transactions = 0
         /\ \E i \in 1..NRows(transactions_df) :
              /\ transactions_df.rows[i]["name"] = a.name
              /\ transactions_df.rows[i]["type"] = Dividend
    /\ \E a \in SummaryRows : a.buy_transactions >= 1

\* the stored rows that count for a side of a security: those of its name
\* and of the side's type, with a positive quantity
SideRows(name, transaction_type) ==
    {i \in 1..NRows(transactions_df) :
       /\ transactions_df.rows[i]["name"] = name
       /\ transactions_df.rows[i]["type"] = transaction_type
       /\ RGt(transactions_df.rows[i]["quantity"], Num(0))}

\* C20: in every aggregate a side without rows for the security has
\* quantity, amount and transaction count zero, never null, and
\* buy_quantity >= 0 and sell_quantity >= 0.
C20_MissingSideZero ==
    \A a \in SummaryRows :
        /\ SideRows(a.name, Buy) = {} =>
             /\ a.buy_quantity = Num(0)
             /\ a.buy_amount_eur = Num(0)
             /\ a.buy_transactions = 0
        /\ SideRows(a.name, Sell) = {} =>
             /\ a.sell_quantity = Num(0)
             /\ a.sell_amount_eur = Num(0)
             /\ a.sell_transactions = 0
        /\ IsFinite(a.buy_quantity) /\ RLe(Num(0), a.buy_quantity)
        /\ IsFinite(a.sell_quantity) /\ RLe(Num(0), a.sell_quantity)

\* a security without a sale beside a security that has one
C20_Witness ==
    /\ \E a \in SummaryRows :
         /\ SideRows(a.name, Sell) = {}
         /\ SideRows(a.name, Buy) # {}
         /\ a.sell_quantity = Num(0)
    /\ \E a \in SummaryRows : SideRows(a.name, Sell) # {}

IdleRows ==
    IF {"name", "quantity"} \subseteq transactions_df.columns
    THEN {i \in 1..Len(transactions_df.rows) :
            LET row == transactions_df.rows[i]
            IN  \/ row["name"].null
                \/ IsNaN(row["quantity"])
                \/ RLe(row["quantity"], Num(0))}
    ELSE {}

\* the cleaned table without the rows at the given positions
WithoutRows(removed) ==
    LET kept == {i \in 1..Len(transactions_df.rows) : i \notin removed}
        Pick[k \in 0..Len(transactions_df.rows)] ==
            IF k = 0 THEN <<>>
            ELSE IF k \in kept
                 THEN Append(Pick[k - 1], transactions_df.rows[k])
                 ELSE Pick[k - 1]
    IN  Table(transactions_df.columns, Pick[Len(transactions_df.rows)])

\* C22: only rows with a name and a quantity > 0 contribute: the aggregate
\* of the table is the aggregate of the table with any of its rows without
\* a name, or with a missing, zero or negative quantity, taken out.
C22_IdleRowsIgnored ==
    last_call.method = "_prepare_transaction_summary"
        => \A removed \in SUBSET IdleRows :
               prepare_transaction_summary(WithoutRows(removed)) = summary

\* a purchase aggregated beside a row with a negative quantity
C22_Witness ==
    /\ last_call.method = "_prepare_transaction_summary"
    /\ ~summary.none /\ Len(summary.rows) = 1
    /\ Len(transactions_df.rows) = 2
    /\ \E i \in IdleRows :
           /\ ~transactions_df.rows[i]["name"].null
           /\ RGt(Num(0), transactions_df.rows[i]["quantity"])

\* the amount of the stored row at a position, as the rule gives it:
\* quantity times price_per_unit_eur, or times gross_amount_eur / quantity
\* when there is no price per unit
RowAmount(i) ==
    LET row == transactions_df.rows[i]
        price == IF ~IsNaN(row["price_per_unit_eur"])
                 THEN row["price_per_unit_eur"]
                 ELSE RDiv(row["gross_amount_eur"], row["quantity"])
    IN  RMul(row["quantity"], price)

\* the sum of the resolved amounts of the stored rows at the given indices
SumOfAmounts(indices) ==
    LET Acc[k \in 0..NRows(transactions_df)] ==
            IF k = 0 THEN Num(0)
            ELSE IF k \in indices /\ ~IsNaN(RowAmount(k))
                 THEN RAdd(Acc[k - 1], RowAmount(k))
                 ELSE Acc[k - 1]
    IN  Acc[NRows(transactions_df)]

\* C23: the effective price of an aggregated row is price_per_unit_eur when
\* it is there, else gross_amount_eur / quantity, its amount is the
\* quantity times that price, and the amount of a side is the sum of the
\* amounts of its rows.
C23_SideAmounts ==
    \A a \in SummaryRows :
        /\ a.buy_amount_eur = SumOfAmounts(SideRows(a.name, Buy))
        /\ a.sell_amount_eur = SumOfAmounts(SideRows(a.name, Sell))

\* a purchase priced per unit whose gross amount says otherwise, beside a
\* purchase priced by its gross amount alone
C23_Witness ==
    /\ \E a \in SummaryRows :
           \E i \in SideRows(a.name, Buy) :
               /\ ~IsNaN(transactions_df.rows[i]["price_per_unit_eur"])
               /\ ~IsNaN(transactions_df.rows[i]["gross_amount_eur"])
               /\ RMul(transactions_df.rows[i]["quantity"],
                       transactions_df.rows[i]["price_per_unit_eur"])
                    # transactions_df.rows[i]["gross_amount_eur"]
    /\ \E a \in SummaryRows :
           \E i \in SideRows(a.name, Buy) :
               /\ IsNaN(transactions_df.rows[i]["price_per_unit_eur"])
               /\ RGt(RowAmount(i), Num(0))

\* the positions of the stored rows of a name that have a quantity > 0
GroupRows(name) ==
    {i \in 1..NRows(transactions_df) :
       /\ ~name.null
       /\ transactions_df.rows[i]["name"] = name
       /\ RGt(transactions_df.rows[i]["quantity"], Num(0))}

\* the first cell of a column that is not null among the rows of a name,
\* in the order of the table; None when there is none
FirstKnown(name, column) ==
    LET known == {i \in GroupRows(name) :
                    ~transactions_df.rows[i][column].null}
    IN  IF known = {} THEN None
        ELSE transactions_df.rows[CHOOSE i \in known :
                                    \A j \in known : i <= j][column]

\* C24: the aggregates hold one row per distinct name, and the ticker and
\* the currency of a row are the first non-null ticker and the first
\* non-null currency among the rows of its name, in input order (null when
\* no row of the name has one).
C24_OnePerName ==
    /\ \A i, j \in 1..Len(summary.rows) :
           last_call.method = "_prepare_transaction_summary"
           /\ summary.rows[i].name = summary.rows[j].name => i = j
    /\ SummaryRows # {} =>
           \A i \in 1..NRows(transactions_df) :
               GroupRows(transactions_df.rows[i]["name"]) # {} =>
                   \E a \in SummaryRows :
                       a.name = transactions_df.rows[i]["name"]
    /\ \A a \in SummaryRows :
           /\ GroupRows(a.name) # {}
           /\ a.ticker = FirstKnown(a.name, "ticker")
           /\ a.currency = FirstKnown(a.name, "currency")

\* a security whose two rows name different currencies and no ticker
C24_Witness ==
    \E a \in SummaryRows :
        /\ a.ticker.null
        /\ \E i, j \in GroupRows(a.name) :
               /\ i < j
               /\ ~transactions_df.rows[j]["currency"].null
               /\ a.currency = transactions_df.rows[i]["currency"]
               /\ a.currency # transactions_df.rows[j]["currency"]

\* ------------------------------------------------------------------------
\* The renaming of the columns of a sheet
\* ------------------------------------------------------------------------

\* the headers the renaming is checked on: two that column_mapping knows,
\* one of them numeric, and four that it does not know, one of which is
\* the canonical name of a known one
RenameUniverse ==
    {"Name", "Quantity", "quantity", "Order-Id", "Fee/Tax", " Trade Date "}

RenameCells == {Str(<<"1", ",", "5">>), Str(<<" ", "x", " ">>), None}

MaxRenameRows == 2

\* a row holding the same cell under every header is typed into the sheet
SheetAppendCell ==
    /\ Len(sheet.rows) < MaxRenameRows
    /\ \E cell \in RenameCells :
         sheet' = Sheet(sheet.headers,
                        Append(sheet.rows, [h \in sheet.headers |-> cell]))
    /\ UNCHANGED <<positions, portfolio_df, tickers_needing_input, dashboard,
                   raw_transactions, transactions_df, summary, stock_view,
                   quote_cache, price_cache, fx_cache, clock, requests,
                   last_call>>

InitRename ==
    /\ sheet \in {Sheet(headers, <<>>) :
                    headers \in SUBSET RenameUniverse \ {{}}}
    /\ InitManager

NextRename == SheetAppendCell \/ LoadTransactions

SpecRename == InitRename /\ [][NextRename]_vars

\* the name the rule gives a header: the configured name of a known header,
\* else the header trimmed, in lower case, with "_" for " ", "-" and "/"
DescribedName(header) ==
    CASE header = "Name" -> "name"
      [] header = "Quantity" -> "quantity"
      [] header = "quantity" -> "quantity"
      [] header = "Order-Id" -> "order_id"
      [] header = "Fee/Tax" -> "fee_tax"
      [] header = " Trade Date " -> "trade_date"

\* load_transactions has just read a table that has rows
LoadedRows ==
    /\ last_call.method = "load_transactions"
    /\ ~raw_transactions.none
    /\ raw_transactions.rows # <<>>

\* the stored table has the described names as its columns
RenamedAsDescribed ==
    /\ ~transactions_df.none
    /\ transactions_df.columns
         = {DescribedName(h) : h \in raw_transactions.columns}

\* C25: every known header is renamed to its configured name and every
\* unknown header to its trimmed, lowercased name with spaces, hyphens and
\* slashes replaced by underscores, and for any set of headers, those that
\* map to the same name included, clean yields these columns without
\* failing.
C25_Renaming == LoadedRows => ~last_call.raised /\ RenamedAsDescribed

\* the renaming as described wherever clean does not fail
C25_RenamingUnlessRaised ==
    LoadedRows /\ ~last_call.raised => RenamedAsDescribed

\* a sheet with the headers "Quantity" and "quantity": the load fails
C25_Witness ==
    /\ LoadedRows
    /\ {"Quantity", "quantity"} \subseteq raw_transactions.columns
    /\ last_call.raised

\* a sheet whose unknown headers are all renamed
C25_RenamedWitness ==
    /\ LoadedRows
    /\ ~last_call.raised
    /\ {"order_id", "fee_tax", "trade_date", "name"}
         \subseteq transactions_df.columns

\* ------------------------------------------------------------------------
\* PortfolioManager.calculate_positions, calculate_portfolio_value,
\* get_tickers_needing_manual_input, and render_dashboard
\* ------------------------------------------------------------------------

\* positions computed as one holding of ACM whenever there are transactions
calculate_positions_held(df) ==
    IF df.none \/ IsEmpty(df) THEN Positions(<<>>)
    ELSE Positions(<<[ticker |-> ACM, quantity |-> Num(10),
                      currency |-> EUR, invested |-> Num(1000)]>>)

\* calculate_positions: the dict it stores and returns, whatever the
\* transactions of the manager
calculate_positions(df) == Positions(<<>>)

\* not self._positions
NoPositionsAvailable(pos) == pos.none \/ pos.items = <<>>

\* the items the loops do not skip for their quantity
held_items(pos) ==
    LET Held(position) == RGt(position.quantity, Num(0))
    IN  SelectSeq(pos.items, Held)

\* one dict of results, for a position with a current price
portfolio_row(position, current_price, exchange_rate) ==
    LET invested_eur == RMul(position.invested, exchange_rate)
        current_value_eur ==
            RMul(RMul(position.quantity, current_price), exchange_rate)
        returns == RSub(current_value_eur, invested_eur)
        returns_pct == IF RGt(invested_eur, Num(0))
                       THEN RMul(RDiv(returns, invested_eur), Num(100))
                       ELSE Num(0)
    IN  [c \in {"Ticker", "Quantity", "Currency", "Invested (EUR)",
                "Current Value (EUR)", "Returns (EUR)", "Returns (%)"} |->
           CASE c = "Ticker" -> Str(position.ticker)
             [] c = "Quantity" -> position.quantity
             [] c = "Currency" -> Str(position.currency)
             [] c = "Invested (EUR)" -> Round2(invested_eur)
             [] c = "Current Value (EUR)" -> Round2(current_value_eur)
             [] c = "Returns (EUR)" -> Round2(returns)
             [] c = "Returns (%)" -> Round2(returns_pct)]

\* calculate_portfolio_value, given what get_stock_price and
\* get_exchange_rate return for the keys it asks about
calculate_portfolio_value(pos, manual_values, stock_prices, exchange_rates) ==
    IF NoPositionsAvailable(pos) THEN EmptyTable
    ELSE
    LET current_price(position) ==
            get_current_price(stock_prices[position.ticker],
                              position.ticker, manual_values)
        Priced(position) ==
            current_price(position).some
            /\ current_price(position).v # Num(0)
        priced == SelectSeq(held_items(pos), Priced)
        results == [i \in 1..Len(priced) |->
                      portfolio_row(priced[i], current_price(priced[i]).v,
                                    exchange_rates[priced[i].currency])]
    IN  IF results = <<>> THEN EmptyTable
        ELSE Table(DOMAIN results[1], results)

\* get_tickers_needing_manual_input, given what get_stock_price returns
get_tickers_needing_manual_input(pos, stock_prices) ==
    IF NoPositionsAvailable(pos) THEN <<>>
    ELSE LET Unpriced(position) == ~stock_prices[position.ticker].some
             unpriced == SelectSeq(held_items(pos), Unpriced)
         IN  [i \in 1..Len(unpriced) |-> unpriced[i].ticker]

\* the tickers a loop over the positions asks get_stock_price about
position_price_calls(pos) ==
    IF NoPositionsAvailable(pos) THEN {}
    ELSE {held_items(pos)[i].ticker : i \in 1..Len(held_items(pos))}

\* the currencies calculate_portfolio_value asks get_exchange_rate about
position_rate_calls(pos, manual_values, stock_prices) ==
    IF NoPositionsAvailable(pos) THEN {}
    ELSE LET items == held_items(pos)
         IN  {items[i].currency :
                i \in {j \in 1..Len(items) :
                         LET price == get_current_price(
                                        stock_prices[items[j].ticker],
                                        items[j].ticker, manual_values)
                         IN  price.some /\ price.v # Num(0)}}

\* the currencies of the positions the loops do not skip
position_currencies(pos) ==
    IF NoPositionsAvailable(pos) THEN {}
    ELSE {held_items(pos)[i].currency : i \in 1..Len(held_items(pos))}

\* the caches and the requests after the given lookups at this instant
price_cache_after(price_calls, stock_prices) ==
    [t \in TickerUniverse |->
       IF t \in price_calls /\ ~Fresh(price_cache[t], clock)
       THEN Entry(stock_prices[t], clock) ELSE price_cache[t]]

quote_cache_after(price_calls, quotes) ==
    [t \in TickerUniverse |->
       IF /\ t \in price_calls
          /\ ~Fresh(price_cache[t], clock)
          /\ ~Fresh(quote_cache[t], clock)
       THEN Entry(get_stock_quote(quotes[t]), clock) ELSE quote_cache[t]]

fx_cache_after(rate_calls, exchange_rates) ==
    [c \in CurrencyUniverse |->
       IF c \in rate_calls /\ ~Fresh(fx_cache[c], clock)
       THEN Entry(exchange_rates[c], clock) ELSE fx_cache[c]]

requests_after(price_calls, rate_calls, quotes, rates) ==
    {[to |-> "quote", key |-> t, answer |-> quotes[t]] :
        t \in {u \in price_calls : /\ ~Fresh(price_cache[u], clock)
                                   /\ ~Fresh(quote_cache[u], clock)}}
    \cup {[to |-> "fx", key |-> c, answer |-> rates[c]] :
            c \in {m \in rate_calls :
                     /\ ~Fresh(fx_cache[m], clock)
                     /\ get_exchange_rate(m, EUR, rates[m]).sent}}

CalculatePositions ==
    /\ positions' = calculate_positions(transactions_df)
    /\ requests' = {}
    /\ last_call' = Call("calculate_positions", <<>>)
    /\ UNCHANGED <<sheet, raw_transactions, transactions_df, summary,
                   stock_view, quote_cache, price_cache, fx_cache, clock,
                   portfolio_df, tickers_needing_input, dashboard>>

CalculatePortfolioValue ==
    \E manual_values \in ManualValues,
       quotes \in AnswersFor({t \in position_price_calls(positions) :
                                 /\ ~Fresh(price_cache[t], clock)
                                 /\ ~Fresh(quote_cache[t], clock)},
                             TickerUniverse, QuoteAnswers),
       rates \in AnswersFor({c \in position_currencies(positions) :
                                ~Fresh(fx_cache[c], clock)},
                            CurrencyUniverse, FxAnswers) :
    \E stock_prices \in {[t \in TickerUniverse |->
                            cached_stock_price(t, quotes)]},
       exchange_rates \in {[c \in CurrencyUniverse |->
                              cached_exchange_rate(c, rates)]} :
    \E price_calls \in {position_price_calls(positions)},
       rate_calls \in {position_rate_calls(positions, manual_values,
                                           stock_prices)} :
      /\ portfolio_df' = calculate_portfolio_value(positions, manual_values,
                                                   stock_prices,
                                                   exchange_rates)
      /\ price_cache' = price_cache_after(price_calls, stock_prices)
      /\ quote_cache' = quote_cache_after(price_calls, quotes)
      /\ fx_cache' = fx_cache_after(rate_calls, exchange_rates)
      /\ requests' = requests_after(price_calls, rate_calls, quotes, rates)
      /\ last_call' = Call("calculate_portfolio_value", manual_values)
      /\ UNCHANGED <<sheet, raw_transactions, transactions_df, summary,
                     stock_view, clock, positions, tickers_needing_input,
                     dashboard>>

GetTickersNeedingManualInput ==
    \E quotes \in AnswersFor({t \in position_price_calls(positions) :
                                 /\ ~Fresh(price_cache[t], clock)
                                 /\ ~Fresh(quote_cache[t], clock)},
                             TickerUniverse, QuoteAnswers) :
    \E stock_prices \in {[t \in TickerUniverse |->
                            cached_stock_price(t, quotes)]},
       price_calls \in {position_price_calls(positions)} :
      /\ tickers_needing_input'
           = get_tickers_needing_manual_input(positions, stock_prices)
      /\ price_cache' = price_cache_after(price_calls, stock_prices)
      /\ quote_cache' = quote_cache_after(price_calls, quotes)
      /\ requests' = requests_after(price_calls, {}, quotes, quotes)
      /\ last_call' = Call("get_tickers_needing_manual_input", <<>>)
      /\ UNCHANGED <<sheet, raw_transactions, transactions_df, summary,
                     stock_view, fx_cache, clock, positions, portfolio_df,
                     dashboard>>

\* the places where render_dashboard ends
NoTransactionsWarning == "no transactions"

NoPositionsWarning == "no positions"

NoPortfolioWarning == "no portfolio"

RenderingCompleted == "completed"

RenderingRaised == "raised"

\* render_dashboard from the calculation of the positions on, the
\* transactions being loaded and not empty
RenderPositions(cleaned) ==
    \E pos \in {calculate_positions(cleaned)} :
      IF NoPositionsAvailable(pos)
      THEN /\ positions' = pos
           /\ last_call' = Call("calculate_positions", <<>>)
           /\ dashboard' = NoPositionsWarning
           /\ requests' = {}
           /\ UNCHANGED <<quote_cache, price_cache, fx_cache, portfolio_df,
                          tickers_needing_input>>
      ELSE
      \E manual_values \in ManualValues,
         quotes \in AnswersFor({t \in position_price_calls(pos) :
                                   /\ ~Fresh(price_cache[t], clock)
                                   /\ ~Fresh(quote_cache[t], clock)},
                               TickerUniverse, QuoteAnswers),
         rates \in AnswersFor({c \in position_currencies(pos) :
                                  ~Fresh(fx_cache[c], clock)},
                              CurrencyUniverse, FxAnswers) :
      \E stock_prices \in {[t \in TickerUniverse |->
                              cached_stock_price(t, quotes)]},
         exchange_rates \in {[c \in CurrencyUniverse |->
                                cached_exchange_rate(c, rates)]} :
      \E price_calls \in {position_price_calls(pos)},
         rate_calls \in {position_rate_calls(pos, manual_values,
                                             stock_prices)},
         portfolio \in {calculate_portfolio_value(pos, manual_values,
                                                  stock_prices,
                                                  exchange_rates)} :
        /\ positions' = pos
        /\ tickers_needing_input'
             = get_tickers_needing_manual_input(pos, stock_prices)
        /\ portfolio_df' = portfolio
        /\ price_cache' = price_cache_after(price_calls, stock_prices)
        /\ quote_cache' = quote_cache_after(price_calls, quotes)
        /\ fx_cache' = fx_cache_after(rate_calls, exchange_rates)
        /\ requests' = requests_after({}, rate_calls, quotes, rates)
        /\ last_call' = Call("calculate_portfolio_value", manual_values)
        /\ dashboard' = IF IsEmpty(portfolio) THEN NoPortfolioWarning
                        ELSE RenderingCompleted

RenderDashboard ==
    /\ raw_transactions' = transactions_after_clean(get_transactions(sheet))
    /\ \E cleaned \in {clean_transactions(get_transactions(sheet))} :
         IF cleaned = Raised
         THEN /\ last_call' = Failed("load_transactions", <<>>)
              /\ dashboard' = RenderingRaised
              /\ requests' = {}
              /\ UNCHANGED <<transactions_df, positions, quote_cache,
                             price_cache, fx_cache, portfolio_df,
                             tickers_needing_input>>
         ELSE IF IsEmpty(cleaned)
         THEN /\ transactions_df' = cleaned
              /\ last_call' = Call("load_transactions", <<>>)
              /\ dashboard' = NoTransactionsWarning
              /\ requests' = {}
              /\ UNCHANGED <<positions, quote_cache, price_cache, fx_cache,
                             portfolio_df, tickers_needing_input>>
         ELSE /\ transactions_df' = cleaned
              /\ RenderPositions(cleaned)
    /\ UNCHANGED <<sheet, summary, stock_view, clock>>

MaxPositionRows == 1

InitPositions ==
    /\ sheet \in {Sheet(Headers, rows) :
                    rows \in BoundedSeq(ValuationRows, MaxPositionRows)}
    /\ InitManager

NextPositions ==
    \/ LoadTransactions
    \/ CalculatePositions
    \/ CalculatePortfolioValue
    \/ GetTickersNeedingManualInput
    \/ RenderDashboard

SpecPositions == InitPositions /\ [][NextPositions]_vars

C27_FailuresMemoized ==
    [][(last_call'.method = "calculate_stock_view" /\ clock' = clock) =>
         \A i \in 1..Len(stock_view'.rows) :
           LET v == stock_view'.rows[i]
           IN  /\ (v.asked_price /\ v.stock_price = NoPrice) =>
                     /\ InWindow(price_cache'[v.ticker.s])
                     /\ price_cache'[v.ticker.s].value = NoPrice
               /\ (/\ v.asked_rate
                   /\ v.currency # EUR
                   /\ v.exchange_rate = Num(1)) =>
                     /\ InWindow(fx_cache'[v.currency])
                     /\ fx_cache'[v.currency].value = Num(1)
               /\ (/\ v.asked_price
                   /\ InWindow(price_cache[v.ticker.s])
                   /\ ~price_cache[v.ticker.s].value.some) =>
                     /\ v.stock_price = NoPrice
                     /\ ~Requested(requests', "quote", v.ticker.s)
               /\ (/\ v.asked_rate
                   /\ v.currency # EUR
                   /\ InWindow(fx_cache[v.currency])
                   /\ fx_cache[v.currency].value = Num(1)) =>
                     /\ v.exchange_rate = Num(1)
                     /\ ~Requested(requests', "fx", v.currency)]_vars

\* a valuation half an hour after a price lookup that failed: no price, and
\* no request to the provider
C27_Witness ==
    /\ last_call.method = "calculate_stock_view"
    /\ clock = 1800
    /\ price_cache[USX] = Entry(NoPrice, 0)
    /\ \E i \in 1..Len(stock_view.rows) :
           /\ stock_view.rows[i].asked_price
           /\ stock_view.rows[i].stock_price = NoPrice
    /\ ~Requested(requests, "quote", USX)

\* the stored rows at the given indices that have neither a price per unit
\* nor a gross amount in EUR
Unpriced(indices) ==
    {i \in indices :
       /\ IsNaN(transactions_df.rows[i]["price_per_unit_eur"])
       /\ IsNaN(transactions_df.rows[i]["gross_amount_eur"])}

\* the sum of the quantities of the stored rows at the given indices
SumOfQuantities(indices) ==
    LET Acc[k \in 0..NRows(transactions_df)] ==
            IF k = 0 THEN Num(0)
            ELSE IF k \in indices
                 THEN RAdd(Acc[k - 1], transactions_df.rows[k]["quantity"])
                 ELSE Acc[k - 1]
    IN  Acc[NRows(transactions_df)]

\* the amount in EUR of the stored row at an index that has a price
PricedAmount(i) ==
    LET row == transactions_df.rows[i]
    IN  IF ~IsNaN(row["price_per_unit_eur"])
        THEN RMul(row["quantity"], row["price_per_unit_eur"])
        ELSE row["gross_amount_eur"]

\* the sum of the amounts of the stored rows at the given indices, all of
\* them priced
SumOfPriced(indices) ==
    LET Acc[k \in 0..NRows(transactions_df)] ==
            IF k = 0 THEN Num(0)
            ELSE IF k \in indices THEN RAdd(Acc[k - 1], PricedAmount(k))
                 ELSE Acc[k - 1]
    IN  Acc[NRows(transactions_df)]

\* C28: a Buy or Sell row with a positive quantity and neither a price per
\* unit nor a gross amount in EUR adds its quantity to the quantity of its
\* side and 1 to the transaction count of its side, and nothing to the
\* amount of its side, which stays resolved.
C28_UnpricedRows ==
    \A a \in SummaryRows :
        /\ a.buy_quantity = SumOfQuantities(SideRows(a.name, Buy))
        /\ a.buy_transactions = Cardinality(SideRows(a.name, Buy))
        /\ a.buy_amount_eur
             = SumOfPriced(SideRows(a.name, Buy)
                             \ Unpriced(SideRows(a.name, Buy)))
        /\ a.sell_quantity = SumOfQuantities(SideRows(a.name, Sell))
        /\ a.sell_transactions = Cardinality(SideRows(a.name, Sell))
        /\ a.sell_amount_eur
             = SumOfPriced(SideRows(a.name, Sell)
                             \ Unpriced(SideRows(a.name, Sell)))
        /\ ~IsNaN(a.buy_amount_eur)
        /\ ~IsNaN(a.sell_amount_eur)

\* a purchase without any price beside a priced purchase of the same
\* security
C28_Witness ==
    \E a \in SummaryRows :
        /\ Cardinality(Unpriced(SideRows(a.name, Buy))) = 1
        /\ a.buy_transactions = 2
        /\ a.buy_quantity = Num(11)
        /\ a.buy_amount_eur = Num(1000)

\* C29: a security with a remaining quantity > 0 and no known ticker
\* triggers no price and no FX lookup, and its current price, unrealized
\* value, total value and profit are unresolved whatever manual_values
\* holds, a price stored under the name of the security included.
C29_NoTickerUnresolved ==
    /\ \A v \in ViewRows :
         (RGt(v.remaining_qty, Num(0)) /\ v.ticker.null) =>
           /\ ~v.asked_price
           /\ ~v.asked_rate
           /\ ~v.market_price.some
           /\ IsNaN(v.current_price_eur)
           /\ IsNaN(v.unrealized_value_eur)
           /\ IsNaN(v.total_value_eur)
           /\ IsNaN(v.profit_eur)
           /\ IsNaN(v.profit_pct)
    /\ (\A v \in ViewRows : v.ticker.null) => requests = {}

\* the purchase of GOLD, which has no ticker, valued with a manual price
\* stored under GOLD
C29_Witness ==
    /\ last_call.method = "calculate_stock_view"
    /\ last_call.manual_values = GOLD :> Num(60)
    /\ \E v \in ViewRows :
           /\ v.name = Str(GOLD)
           /\ v.ticker.null
           /\ v.remaining_qty = Num(2)
           /\ IsNaN(v.total_value_eur)

\* the stored table has the five columns the aggregation asks for
HasRequiredColumns ==
    /\ ~transactions_df.none
    /\ {"name", "quantity", "price_per_unit_eur", "gross_amount_eur", "type"}
         \subseteq transactions_df.columns

\* some stored row has a name and a quantity > 0
SomeRowCounts ==
    \E i \in 1..NRows(transactions_df) :
        /\ ~transactions_df.rows[i]["name"].null
        /\ RGt(transactions_df.rows[i]["quantity"], Num(0))

\* C30: the aggregation requires name, quantity, price_per_unit_eur,
\* gross_amount_eur and type only: with these five columns and a row that
\* has a name and a quantity > 0, a table without the ticker column or
\* without the currency column makes it end in an exception, not in an
\* empty result nor in aggregates with null metadata.
C30_MetadataColumns ==
    (/\ last_call.method = "_prepare_transaction_summary"
     /\ HasRequiredColumns
     /\ ~({"ticker", "currency"} \subseteq transactions_df.columns)) =>
        IF SomeRowCounts THEN summary = Raised ELSE summary = EmptyTable

\* a purchase aggregated from a sheet without the Ticker column
C30_Witness ==
    /\ last_call.method = "_prepare_transaction_summary"
    /\ HasRequiredColumns
    /\ "ticker" \notin transactions_df.columns
    /\ "currency" \in transactions_df.columns
    /\ SomeRowCounts
    /\ summary = Raised

====
